---- MODULE Spec2Model ----
(***************************************************************************)
(* A model of prouter (src/src/prouter.ts): the route helper that compiles *)
(* route strings into path expressions and matches fragments against them, *)
(* and the static Router that owns the options, the loaded path, the       *)
(* handler table and the browser location.  The History class of           *)
(* easy-router (src/unnamed/part_003) is modelled next to it: the started  *)
(* flag its instances share, and the fields of each instance.              *)
(*                                                                         *)
(* JavaScript strings are sequences of one-character strings, so that      *)
(* slicing, stripping and scanning are computed as the code computes them. *)
(* A JavaScript value whose type matters at run time is a record with a    *)
(* field "kind" (undefined, null, string, function, RouteGroup, object).   *)
(***************************************************************************)
EXTENDS Integers, Sequences, FiniteSets, TLC

(***************************************************************************)
(* JavaScript values                                                       *)
(***************************************************************************)
Undefined == [kind |-> "undefined"]

Null == [kind |-> "null"]

Str(s) == [kind |-> "string", chars |-> s]

Fn(id) == [kind |-> "function", id |-> id]

Num(n) == [kind |-> "number", n |-> n]

\* a RouteGroup instance; its _handlers are the {path, activate} pairs pushed by use
RouteGroup(members) == [kind |-> "RouteGroup", _handlers |-> members]

GroupHandler(path, activate) == [path |-> path, activate |-> activate]

\* what String(undefined) is: decodeURIComponent(undefined) yields this text
UndefinedText == <<"u", "n", "d", "e", "f", "i", "n", "e", "d">>

\* The element of a singleton set.  An intermediate result that is used more
\* than once is bound as Only({ ... r ... : r \in {e}}), which evaluates e once.
Only(S) == CHOOSE x \in S : TRUE

(***************************************************************************)
(* String primitives                                                       *)
(***************************************************************************)
Slice(s, from, to) == SubSeq(s, from, to)

\* the position of the first occurrence of character c in s at or after from, 0 if none
IndexOfFrom(s, c, from) ==
    IF \E i \in from..Len(s) : s[i] = c
    THEN CHOOSE i \in from..Len(s) : s[i] = c /\ \A j \in from..(i - 1) : s[j] # c
    ELSE 0

IndexOf(s, c) == IndexOfFrom(s, c, 1)

RECURSIVE Split(_, _)
\* s.split(sep) for a one-character separator
Split(s, sep) ==
    LET i == IndexOf(s, sep)
    IN  IF i = 0 THEN <<s>>
        ELSE <<Slice(s, 1, i - 1)>> \o Split(Slice(s, i + 1, Len(s)), sep)

\* the number of slashes s begins with
LeadingSlashes(s) ==
    IF \E i \in 1..Len(s) : s[i] # "/"
    THEN (CHOOSE i \in 1..Len(s) : s[i] # "/" /\ \A j \in 1..(i - 1) : s[j] = "/") - 1
    ELSE Len(s)

\* the number of slashes s ends with
TrailingSlashes(s) ==
    IF \E i \in 1..Len(s) : s[i] # "/"
    THEN Len(s) - (CHOOSE i \in 1..Len(s) : s[i] # "/" /\ \A j \in (i + 1)..Len(s) : s[j] = "/")
    ELSE Len(s)

\* the 'i' flag of the compiled expressions: letters compare without case
Lower(c) ==
    CASE c = "A" -> "a"
      [] c = "B" -> "b"
      [] OTHER -> c

\* \w of the route scanner
IsWordChar(c) == c \in {"a", "b", "c", "i", "d", "A", "B", "x", "y", "0", "1", "5", "7", "_"}

(***************************************************************************)
(* RouteHelper                                                             *)
(***************************************************************************)

\* LEADING_SLASHES_STRIPPER = /^\/+|\/+$/ has no g flag, so replace() removes
\* the first match only: the leading slashes when there are some, and the
\* trailing slashes otherwise.
clearSlashes(path) ==
    IF LeadingSlashes(path) > 0
    THEN Slice(path, LeadingSlashes(path) + 1, Len(path))
    ELSE Slice(path, 1, Len(path) - TrailingSlashes(path))

\* decodeURIComponent on the characters of the model: a string without "%" is
\* returned as it is, undefined is converted to its text, and a "%" that is not
\* followed by the two hex digits of a known character raises URIError.
HexChar(a, b) ==
    CASE a = "2" /\ b = "F" -> <<"/">>
      [] a = "6" /\ b = "1" -> <<"a">>
      [] OTHER -> <<>>

RECURSIVE DecodeChars(_)
DecodeChars(s) ==
    IF s = <<>> THEN [err |-> "none", chars |-> <<>>]
    ELSE IF s[1] # "%"
         THEN LET r == DecodeChars(Tail(s))
              IN  [r EXCEPT !.chars = <<s[1]>> \o @]
         ELSE IF Len(s) < 3 \/ HexChar(s[2], s[3]) = <<>>
              THEN [err |-> "URIError", chars |-> <<>>]
              ELSE LET r == DecodeChars(Slice(s, 4, Len(s)))
                   IN  [r EXCEPT !.chars = HexChar(s[2], s[3]) \o @]

decodeURIComponent(v) ==
    IF v.kind = "undefined" THEN [err |-> "none", chars |-> UndefinedText]
    ELSE DecodeChars(v.chars)

(***************************************************************************)
(* The route scanner.  Route strings of the model are written over         *)
(* letters, digits, "/", ":" and "?", so of the constructs PATH_STRIPPER   *)
(* recognises, the one that occurs is the named parameter ":name" with an  *)
(* optional "/" or "." before it and an optional suffix after it.          *)
(***************************************************************************)

\* ":" followed by at least one word character, at position q
ParamAt(path, q) == q + 1 <= Len(path) /\ path[q] = ":" /\ IsWordChar(path[q + 1])

\* \w+ is greedy: the last position of the run of word characters that starts at q
WordRunEnd(path, q) ==
    CHOOSE e \in q..Len(path) :
        /\ \A j \in q..e : IsWordChar(path[j])
        /\ (e = Len(path) \/ ~IsWordChar(path[e + 1]))

\* PATH_STRIPPER matches at offset o: with the prefix when a parameter follows
\* it, and otherwise without one when the parameter starts at o itself
StripperMatchesAt(path, o) ==
    \/ (path[o] \in {"/", "."} /\ ParamAt(path, o + 1))
    \/ ParamAt(path, o)

\* PATH_STRIPPER.exec(path) from lastIndex: the leftmost match, index 0 when none
StripperExec(path, lastIndex) ==
    IF \E o \in lastIndex..Len(path) : StripperMatchesAt(path, o)
    THEN LET o == CHOOSE k \in lastIndex..Len(path) :
                      /\ StripperMatchesAt(path, k)
                      /\ \A j \in lastIndex..(k - 1) : ~StripperMatchesAt(path, j)
             hasPrefix == path[o] \in {"/", "."} /\ ParamAt(path, o + 1)
             colon == IF hasPrefix THEN o + 1 ELSE o
             nameEnd == WordRunEnd(path, colon + 1)
             hasSuffix == nameEnd + 1 <= Len(path) /\ path[nameEnd + 1] \in {"+", "*", "?"}
             last == IF hasSuffix THEN nameEnd + 1 ELSE nameEnd
         IN  [index |-> o,
              length |-> last - o + 1,
              prefix |-> IF hasPrefix THEN <<path[o]>> ELSE <<>>,
              name |-> Slice(path, colon + 1, nameEnd),
              suffix |-> IF hasSuffix THEN path[nameEnd + 1] ELSE ""]
    ELSE [index |-> 0, length |-> 0, prefix |-> <<>>, name |-> <<>>, suffix |-> ""]

\* a literal token of _parse
StringToken(text) == [type |-> "string", text |-> text]

\* a parameter token of _parse; the pattern is the escaped text of
\* '[^' + delimiter + ']+?'
ParamToken(res) ==
    LET delimiter == IF res.prefix # <<>> THEN res.prefix[1] ELSE "/"
    IN  [type |-> "object",
         name |-> res.name,
         prefix |-> res.prefix,
         delimiter |-> delimiter,
         optional |-> res.suffix \in {"?", "*"},
         repeat |-> res.suffix \in {"+", "*"},
         pattern |-> IF delimiter = "/" THEN "[^\\/]+?" ELSE "[^.]+?"]

RECURSIVE ParseLoop(_, _, _, _)
\* the while loop of _parse and the two steps after it; index is the position
\* of the first character not consumed yet
ParseLoop(path, index, pathIt, tokens) ==
    Only({IF res.index = 0
          THEN LET rest == pathIt \o Slice(path, index, Len(path))
               IN  IF rest # <<>> THEN Append(tokens, StringToken(rest)) ELSE tokens
          ELSE LET before == pathIt \o Slice(path, index, res.index - 1)
                   pushed == IF before # <<>> THEN Append(tokens, StringToken(before))
                             ELSE tokens
               IN  ParseLoop(path, res.index + res.length, <<>>,
                             Append(pushed, ParamToken(res)))
          : res \in {StripperExec(path, index)}})

_parse(path) == ParseLoop(path, 1, <<>>, <<>>)

(***************************************************************************)
(* The compiled expression.  The text of the regular expression is kept as *)
(* a sequence of elements: an escaped literal character, a parameter group *)
(* (capturing, with its prefix, optional or not), and the closing          *)
(* (?:\/(?=$))? of non-strict mode.  Every expression that is compiled     *)
(* from a string is anchored at both ends and ignores case (the Router     *)
(* passes no options, so strict is unset and end is true).                 *)
(***************************************************************************)
CharElem(c) == [t |-> "char", c |-> c, prefix |-> <<>>, optional |-> FALSE, delimiter |-> ""]

\* GroupElem that makes every parameter optional
GroupElem_alwaysOptional(token) ==
    [t |-> "group", c |-> "", prefix |-> token.prefix, optional |-> TRUE,
     delimiter |-> token.delimiter]

GroupElem(token) ==
    [t |-> "group", c |-> "", prefix |-> token.prefix, optional |-> token.optional,
     delimiter |-> token.delimiter]

OptSlashElem == [t |-> "optslash", c |-> "", prefix |-> <<>>, optional |-> TRUE, delimiter |-> ""]

RECURSIVE TokensToElems(_)
\* the for loop of _tokensToPathExp
TokensToElems(tokens) ==
    IF tokens = <<>> THEN <<>>
    ELSE LET token == Head(tokens)
             here == IF token.type = "string"
                     THEN [j \in 1..Len(token.text) |-> CharElem(token.text[j])]
                     ELSE <<GroupElem(token)>>
         IN  here \o TokensToElems(Tail(tokens))

\* _tokensToPathExp in strict mode: no slash is allowed after the route
_tokensToPathExp_strict(tokens) ==
    [anchored |-> TRUE, elems |-> TokensToElems(tokens), keys |-> Undefined]

_tokensToPathExp(tokens) ==
    LET lastToken == tokens[Len(tokens)]
        endsWithSlash == /\ tokens # <<>>
                         /\ lastToken.type = "string"
                         /\ lastToken.text[Len(lastToken.text)] = "/"
        route == TokensToElems(tokens)
        \* route.slice(0, -2) drops the escaped slash the text ends with
        trimmed == IF endsWithSlash THEN Slice(route, 1, Len(route) - 1) ELSE route
    IN  [anchored |-> TRUE, elems |-> Append(trimmed, OptSlashElem), keys |-> Undefined]

RECURSIVE KeysOf(_)
KeysOf(tokens) ==
    IF tokens = <<>> THEN <<>>
    ELSE (IF Head(tokens).type # "string" THEN <<Head(tokens)>> ELSE <<>>) \o KeysOf(Tail(tokens))

stringToPathExp(path) ==
    Only({[_tokensToPathExp(tokens) EXCEPT !.keys = KeysOf(tokens)]
          : tokens \in {_parse(path)}})

\* a default route that matches the empty path only
DEF_ROUTE_emptyOnly == [anchored |-> TRUE, elems |-> <<>>, keys |-> Undefined]

\* DEF_ROUTE = /.*/: not anchored, no capturing group, no keys
DEF_ROUTE == [anchored |-> FALSE, elems |-> <<>>, keys |-> Undefined]

(***************************************************************************)
(* RegExp.prototype.exec on a compiled expression, by backtracking in the  *)
(* order of the engine: an optional group is tried before it is skipped,   *)
(* and the lazy [^/]+? takes the shortest run that lets the rest match.    *)
(***************************************************************************)
NoMatch == [ok |-> FALSE, args |-> <<>>]

RECURSIVE MatchFrom(_, _, _, _, _), LazyCapture(_, _, _, _, _, _)
MatchFrom(elems, i, s, pos, args) ==
    IF i > Len(elems)
    THEN IF pos = Len(s) + 1 THEN [ok |-> TRUE, args |-> args] ELSE NoMatch
    ELSE LET e == elems[i]
         IN  CASE e.t = "char" ->
                    IF pos <= Len(s) /\ Lower(s[pos]) = Lower(e.c)
                    THEN MatchFrom(elems, i + 1, s, pos + 1, args)
                    ELSE NoMatch
               [] e.t = "optslash" ->
                    Only({IF taken.ok THEN taken
                          ELSE MatchFrom(elems, i + 1, s, pos, args)
                          : taken \in {IF pos = Len(s) /\ s[pos] = "/"
                                       THEN MatchFrom(elems, i + 1, s, pos + 1, args)
                                       ELSE NoMatch}})
               [] e.t = "group" ->
                    LET n == Len(e.prefix)
                        prefixOk == /\ pos + n - 1 <= Len(s)
                                    /\ \A j \in 1..n : s[pos + j - 1] = e.prefix[j]
                    IN  Only({IF taken.ok \/ ~e.optional
                              THEN taken
                              ELSE MatchFrom(elems, i + 1, s, pos, Append(args, Undefined))
                              : taken \in {IF prefixOk
                                           THEN LazyCapture(elems, i, s, pos + n, 1, args)
                                           ELSE NoMatch}})

LazyCapture(elems, i, s, start, k, args) ==
    IF start + k - 1 > Len(s) \/ s[start + k - 1] = elems[i].delimiter
    THEN NoMatch
    ELSE Only({IF r.ok THEN r ELSE LazyCapture(elems, i, s, start, k + 1, args)
               : r \in {MatchFrom(elems, i + 1, s, start + k,
                                  Append(args, Str(Slice(s, start, start + k - 1))))}})

\* pathExp.exec(s): whether it matches, and result.slice(1)
Exec(pathExp, s) ==
    IF pathExp.anchored THEN MatchFrom(pathExp.elems, 1, s, 1, <<>>)
    ELSE [ok |-> TRUE, args |-> <<>>]

\* pathExp.test(s)
Test(pathExp, s) == Exec(pathExp, s).ok

(***************************************************************************)
(* Query and path parsing                                                  *)
(***************************************************************************)
RECURSIVE QueryOfPairs(_, _)
\* the for loop of parseQuery: a later pair overwrites an earlier one with the
\* same key; pair[1] is undefined when the pair has no "="
QueryOfPairs(paramsArr, searchParams) ==
    IF paramsArr = <<>> THEN [err |-> "none", query |-> searchParams]
    ELSE LET pair == Split(Head(paramsArr), "=")
         IN  Only({IF key.err # "none" \/ value.err # "none"
                   THEN [err |-> "URIError", query |-> searchParams]
                   ELSE QueryOfPairs(Tail(paramsArr),
                                     (key.chars :> value.chars) @@ searchParams)
                   : key \in {decodeURIComponent(Str(pair[1]))},
                     value \in {decodeURIComponent(IF Len(pair) >= 2 THEN Str(pair[2])
                                                   ELSE Undefined)}})

parseQuery(queryString) ==
    LET text == IF queryString # <<>> /\ queryString[1] = "?"
                THEN Slice(queryString, 2, Len(queryString))
                ELSE queryString
    IN  QueryOfPairs(Split(text, "&"), <<>>)

\* new URL(path, 'http://example.com') for a path over the characters of the
\* model that does not begin with two slashes: pathname always begins with a
\* slash, search is empty when nothing follows the "?"
URLPathname(path) ==
    LET q == IndexOf(path, "?")
        raw == IF q = 0 THEN path ELSE Slice(path, 1, q - 1)
    IN  IF raw # <<>> /\ raw[1] = "/" THEN raw ELSE <<"/">> \o raw

URLSearch(path) ==
    LET q == IndexOf(path, "?")
    IN  IF q = 0 \/ q = Len(path) THEN <<>> ELSE Slice(path, q, Len(path))

parsePath(path) ==
    Only({[err |-> parsed.err,
           path |-> clearSlashes(URLPathname(path)),
           query |-> parsed.query,
           queryString |-> URLSearch(path)]
          : parsed \in {parseQuery(URLSearch(path))}})

(***************************************************************************)
(* The browser location, as the Router reads and writes it                 *)
(***************************************************************************)

\* history.pushState(null, null, url) for a url that begins with one slash:
\* the new document URL has that path and query and no fragment
pushState(location, url) ==
    [pathname |-> URLPathname(url), search |-> URLSearch(url), hash |-> Undefined]

\* location.hash = value: a single leading "#" is removed and the rest becomes
\* the fragment of the document URL, the empty fragment included
setHash(location, value) ==
    [location EXCEPT !.hash = Str(IF value # <<>> /\ value[1] = "#"
                                  THEN Slice(value, 2, Len(value))
                                  ELSE value)]

\* location.href.match(/#(.*)$/): match[1], or undefined when there is no "#"
hrefHashMatch(location) == location.hash

\* decodeURI on the characters of the model
decodeURI(s) == DecodeChars(s)

(***************************************************************************)
(* Router: the static state is a record st with the fields                 *)
(*   _options     undefined, null, or the options object                   *)
(*   _loadedPath  undefined, null, or a string                             *)
(*   _handlers    the handler table, a sequence of {pathExp, activate}     *)
(*   listeners    the platform events _loadCurrent is subscribed to        *)
(*   location     the browser location                                     *)
(* Every operation yields the new state, what it returned, the error it    *)
(* threw ("none" when it returned) and the handler calls it made.          *)
(***************************************************************************)
Bool(b) == [kind |-> "boolean", b |-> b]

RouterRef == [kind |-> "Router"]

Returned(st, ret, calls) == [st |-> st, ret |-> ret, err |-> "none", calls |-> calls]

Threw(st, err, calls) == [st |-> st, ret |-> Undefined, err |-> err, calls |-> calls]

\* truthiness of this._options
HasOptions(st) == st._options.kind = "object"

_DEF_OPTIONS == [mode |-> "hash", root |-> <<"/">>, silent |-> FALSE]

\* the application's callbacks: "halt" returns false, "null", "zero" and
\* "empty" return null, 0 and '', the others return nothing.  Of these, "toB"
\* calls Router.navigate('b'), "addA" calls Router.use('a', h3), "quit" calls
\* Router.stop(), "edit" assigns to the fields of the request it is given, and
\* "look" reads Router.getCurrent() and the loaded path.
Callbacks ==
    {"h0", "h1", "h2", "h3", "halt", "null", "zero", "empty",
     "toB", "addA", "quit", "edit", "look"}

CallbackReturn(id) ==
    CASE id = "halt" -> Bool(FALSE)
      [] id = "null" -> Null
      [] id = "zero" -> Num(0)
      [] id = "empty" -> Str(<<>>)
      [] OTHER -> Undefined

RECURSIVE ParamsOfArgs_keepsUndefined(_, _, _, _)
\* the for loop of _extractRequest without its test for undefined
ParamsOfArgs_keepsUndefined(args, keys, i, params) ==
    IF i > Len(args) THEN [err |-> "none", params |-> params]
    ELSE LET decoded == decodeURIComponent(args[i])
         IN  IF decoded.err # "none"
             THEN [err |-> decoded.err, params |-> params]
             ELSE ParamsOfArgs_keepsUndefined(args, keys, i + 1,
                                              (keys[i].name :> decoded.chars) @@ params)

RECURSIVE ParamsOfArgs(_, _, _, _)
\* the for loop of _extractRequest
ParamsOfArgs(args, keys, i, params) ==
    IF i > Len(args) THEN [err |-> "none", params |-> params]
    ELSE IF args[i].kind = "undefined"
         THEN ParamsOfArgs(args, keys, i + 1, params)
         ELSE LET decoded == decodeURIComponent(args[i])
              IN  IF decoded.err # "none"
                  THEN [err |-> decoded.err, params |-> params]
                  ELSE ParamsOfArgs(args, keys, i + 1,
                                    (keys[i].name :> decoded.chars) @@ params)

\* the params of a request: result.slice(1) mapped through pathExp.keys;
\* no entry is made when exec() finds no match
ParamsOfExec(pathExp, path) ==
    Only({IF result.ok
          THEN ParamsOfArgs(result.args, pathExp.keys, 1, <<>>)
          ELSE [err |-> "none", params |-> <<>>]
          : result \in {Exec(pathExp, path)}})

_extractRequest(path, pathExp) ==
    Only({Only({[err |-> IF parsed.err # "none" THEN parsed.err ELSE extracted.err,
                 request |-> [path |-> parsed.path,
                              query |-> parsed.query,
                              queryString |-> parsed.queryString,
                              params |-> extracted.params,
                              oldPath |-> Undefined]]
                : extracted \in {ParamsOfExec(pathExp, parsed.path)}})
          : parsed \in {parsePath(path)}})

RECURSIVE ProcessorsFrom(_, _, _, _)
\* the for loop of _obtainRequestProcessors; ref identifies the Request
\* object of a processor: the one the i-th _extractRequest call created
ProcessorsFrom(handlers, i, path, parsedPath) ==
    IF i > Len(handlers) THEN [err |-> "none", processors |-> <<>>]
    ELSE LET handler == handlers[i]
         IN  IF Test(handler.pathExp, parsedPath.path)
             THEN Only({IF extracted.err # "none"
                        THEN [err |-> extracted.err, processors |-> <<>>]
                        ELSE [ProcessorsFrom(handlers, i + 1, path, parsedPath)
                                  EXCEPT !.processors =
                                      <<[activate |-> handler.activate,
                                         ref |-> i,
                                         request |-> extracted.request]>> \o @]
                        : extracted \in {_extractRequest(path, handler.pathExp)}})
             ELSE ProcessorsFrom(handlers, i + 1, path, parsedPath)

\* _obtainRequestProcessors that stops at the first handler that matches
_obtainFirstProcessor(st, path) ==
    Only({IF parsedPath.err # "none"
          THEN [err |-> parsedPath.err, processors |-> <<>>]
          ELSE Only({[found EXCEPT !.processors = Slice(@, 1, IF @ = <<>> THEN 0 ELSE 1)]
                     : found \in {ProcessorsFrom(st._handlers, 1, path, parsedPath)}})
          : parsedPath \in {parsePath(path)}})

\* the _obtainRequestProcessors of a router that reuses one Request object
\* for every processor of a load
_obtainRequestProcessors_sharedRequest(st, path) ==
    Only({IF parsedPath.err # "none"
          THEN [err |-> parsedPath.err, processors |-> <<>>]
          ELSE Only({[found EXCEPT !.processors =
                          [k \in 1..Len(found.processors) |->
                              [found.processors[k] EXCEPT !.ref = found.processors[1].ref]]]
                     : found \in {ProcessorsFrom(st._handlers, 1, path, parsedPath)}})
          : parsedPath \in {parsePath(path)}})

_obtainRequestProcessors(st, path) ==
    Only({IF parsedPath.err # "none"
          THEN [err |-> parsedPath.err, processors |-> <<>>]
          ELSE ProcessorsFrom(st._handlers, 1, path, parsedPath)
          : parsedPath \in {parsePath(path)}})

\* the Request objects of a list of processors, by their identity
RequestsOf(requestProcessors) ==
    [ref \in {requestProcessors[k].ref : k \in 1..Len(requestProcessors)} |->
        requestProcessors[CHOOSE k \in 1..Len(requestProcessors) :
                              /\ requestProcessors[k].ref = ref
                              /\ \A j \in 1..(k - 1) : requestProcessors[j].ref # ref].request]

RECURSIVE navigate(_, _), use(_, _, _), stop(_), getCurrent(_)

\* what a callback does when it is called with a request: the state it
\* leaves, the request object as it leaves it, what it returns or throws, the
\* handler calls made meanwhile, and for "look" what it saw
CallbackBody(id, st, request) ==
    CASE id = "toB" ->
            Only({[st |-> r.st, request |-> request, ret |-> Undefined, err |-> r.err,
                   calls |-> r.calls, seen |-> Undefined]
                  : r \in {navigate(st, <<"b">>)}})
      [] id = "addA" ->
            Only({[st |-> r.st, request |-> request, ret |-> Undefined, err |-> r.err,
                   calls |-> r.calls, seen |-> Undefined]
                  : r \in {use(st, Str(<<"a">>), Fn("h3"))}})
      [] id = "quit" ->
            Only({[st |-> r.st, request |-> request, ret |-> Undefined, err |-> r.err,
                   calls |-> r.calls, seen |-> Undefined]
                  : r \in {stop(st)}})
      [] id = "edit" ->
            [st |-> st,
             request |-> [request EXCEPT !.params = (<<"x">> :> <<"z">>) @@ @,
                                         !.query = (<<"x">> :> <<"z">>) @@ @,
                                         !.oldPath = Str(<<"z">>)],
             ret |-> Undefined, err |-> "none", calls |-> <<>>, seen |-> Undefined]
      [] id = "look" ->
            IF st._options.kind = "object"
            THEN [st |-> st, request |-> request, ret |-> Undefined,
                  err |-> getCurrent(st).err, calls |-> <<>>,
                  seen |-> [current |-> Str(getCurrent(st).path),
                            _loadedPath |-> st._loadedPath]]
            ELSE [st |-> st, request |-> request, ret |-> Undefined,
                  err |-> "TypeError", calls |-> <<>>, seen |-> Undefined]
      [] OTHER ->
            [st |-> st, request |-> request, ret |-> CallbackReturn(id), err |-> "none",
             calls |-> <<>>, seen |-> Undefined]

RECURSIVE RunProcessors_looseEquality(_, _, _, _, _, _)
\* the for loop of _load with the test "next == false" in place of
\* "next === false": 0 and '' break the loop as false does
RunProcessors_looseEquality(st, requestProcessors, requests, i, count, calls) ==
    IF i > Len(requestProcessors)
    THEN [st |-> st, err |-> "none", count |-> count, calls |-> calls]
    ELSE Only({Only({IF done.err # "none"
                     THEN [st |-> done.st, err |-> done.err, count |-> count,
                           calls |-> calls \o <<[activate |-> requestProcessors[i].activate,
                                                 request |-> request,
                                                 seen |-> done.seen]>> \o done.calls]
                     ELSE IF done.ret \in {Bool(FALSE), Num(0), Str(<<>>)}
                     THEN [st |-> done.st, err |-> "none", count |-> count,
                           calls |-> calls \o <<[activate |-> requestProcessors[i].activate,
                                                 request |-> request,
                                                 seen |-> done.seen]>> \o done.calls]
                     ELSE RunProcessors_looseEquality(
                              done.st, requestProcessors,
                              [requests EXCEPT ![requestProcessors[i].ref] = done.request],
                              i + 1, count + 1,
                              calls \o <<[activate |-> requestProcessors[i].activate,
                                          request |-> request,
                                          seen |-> done.seen]>> \o done.calls)
                     : done \in {CallbackBody(requestProcessors[i].activate, st, request)}})
               : request \in {[requests[requestProcessors[i].ref]
                                  EXCEPT !.oldPath = st._loadedPath]}})

RECURSIVE RunProcessors_stopsWhenIdle(_, _, _, _, _, _)
\* the for loop of _load, left as soon as the router has no options
RunProcessors_stopsWhenIdle(st, requestProcessors, requests, i, count, calls) ==
    IF i > Len(requestProcessors) \/ (i > 1 /\ st._options.kind # "object")
    THEN [st |-> st, err |-> "none", count |-> count, calls |-> calls]
    ELSE Only({Only({IF done.err # "none"
                     THEN [st |-> done.st, err |-> done.err, count |-> count,
                           calls |-> calls \o <<[activate |-> requestProcessors[i].activate,
                                                 request |-> request,
                                                 seen |-> done.seen]>> \o done.calls]
                     ELSE IF done.ret = Bool(FALSE)
                     THEN [st |-> done.st, err |-> "none", count |-> count,
                           calls |-> calls \o <<[activate |-> requestProcessors[i].activate,
                                                 request |-> request,
                                                 seen |-> done.seen]>> \o done.calls]
                     ELSE RunProcessors_stopsWhenIdle(
                              done.st, requestProcessors,
                              [requests EXCEPT ![requestProcessors[i].ref] = done.request],
                              i + 1, count + 1,
                              calls \o <<[activate |-> requestProcessors[i].activate,
                                          request |-> request,
                                          seen |-> done.seen]>> \o done.calls)
                     : done \in {CallbackBody(requestProcessors[i].activate, st, request)}})
               : request \in {[requests[requestProcessors[i].ref]
                                  EXCEPT !.oldPath = st._loadedPath]}})

RECURSIVE RunProcessors(_, _, _, _, _, _)
\* the for loop of _load: the request object of each processor gets oldPath,
\* the callback is called with it, and a return of exactly false breaks before
\* count++; what a callback throws leaves the loop and _load.  A call is
\* recorded with the request as the callback received it, followed by the
\* calls made while it ran.
RunProcessors(st, requestProcessors, requests, i, count, calls) ==
    IF i > Len(requestProcessors)
    THEN [st |-> st, err |-> "none", count |-> count, calls |-> calls]
    ELSE Only({Only({IF done.err # "none"
                     THEN [st |-> done.st, err |-> done.err, count |-> count,
                           calls |-> calls \o <<[activate |-> requestProcessors[i].activate,
                                                 request |-> request,
                                                 seen |-> done.seen]>> \o done.calls]
                     ELSE IF done.ret = Bool(FALSE)
                     THEN [st |-> done.st, err |-> "none", count |-> count,
                           calls |-> calls \o <<[activate |-> requestProcessors[i].activate,
                                                 request |-> request,
                                                 seen |-> done.seen]>> \o done.calls]
                     ELSE RunProcessors(
                              done.st, requestProcessors,
                              [requests EXCEPT ![requestProcessors[i].ref] = done.request],
                              i + 1, count + 1,
                              calls \o <<[activate |-> requestProcessors[i].activate,
                                          request |-> request,
                                          seen |-> done.seen]>> \o done.calls)
                     : done \in {CallbackBody(requestProcessors[i].activate, st, request)}})
               : request \in {[requests[requestProcessors[i].ref]
                                  EXCEPT !.oldPath = st._loadedPath]}})

\* _load that stores the path before it runs the processors
_load_storesFirst(st, path) ==
    Only({IF obtained.err # "none"
          THEN Threw(st, obtained.err, <<>>)
          ELSE Only({IF ran.err # "none" THEN Threw(ran.st, ran.err, ran.calls)
                     ELSE Returned(ran.st, Bool(ran.count > 0), ran.calls)
                     : ran \in {RunProcessors([st EXCEPT !._loadedPath = Str(path)],
                                              obtained.processors,
                                              RequestsOf(obtained.processors),
                                              1, 0, <<>>)}})
          : obtained \in {_obtainRequestProcessors(st, path)}})

\* _load that reports a navigation whatever the processors did
_load_alwaysNavigated(st, path) ==
    Only({IF obtained.err # "none"
          THEN Threw(st, obtained.err, <<>>)
          ELSE Only({IF ran.err # "none" THEN Threw(ran.st, ran.err, ran.calls)
                     ELSE Returned([ran.st EXCEPT !._loadedPath = Str(path)],
                                   Bool(TRUE), ran.calls)
                     : ran \in {RunProcessors(st, obtained.processors,
                                              RequestsOf(obtained.processors),
                                              1, 0, <<>>)}})
          : obtained \in {_obtainRequestProcessors(st, path)}})

\* _load that stores the path only when a handler has run
_load_storesWhenNavigated(st, path) ==
    Only({IF obtained.err # "none"
          THEN Threw(st, obtained.err, <<>>)
          ELSE Only({IF ran.err # "none" THEN Threw(ran.st, ran.err, ran.calls)
                     ELSE Returned(IF ran.count > 0
                                   THEN [ran.st EXCEPT !._loadedPath = Str(path)]
                                   ELSE ran.st,
                                   Bool(ran.count > 0), ran.calls)
                     : ran \in {RunProcessors(st, obtained.processors,
                                              RequestsOf(obtained.processors),
                                              1, 0, <<>>)}})
          : obtained \in {_obtainRequestProcessors(st, path)}})

_load(st, path) ==
    Only({IF obtained.err # "none"
          THEN Threw(st, obtained.err, <<>>)
          ELSE Only({IF ran.err # "none" THEN Threw(ran.st, ran.err, ran.calls)
                     ELSE Returned([ran.st EXCEPT !._loadedPath = Str(path)],
                                   Bool(ran.count > 0), ran.calls)
                     : ran \in {RunProcessors(st, obtained.processors,
                                              RequestsOf(obtained.processors),
                                              1, 0, <<>>)}})
          : obtained \in {_obtainRequestProcessors(st, path)}})

getCurrent(st) ==
    IF st._options.mode = "history"
    THEN LET decodedUri == decodeURI(st.location.pathname \o st.location.search)
             cleared == clearSlashes(decodedUri.chars)
             root == st._options.root
             path == IF root = <<"/">> THEN cleared
                     ELSE Slice(cleared, Len(root) + 1, Len(cleared))
         IN  [err |-> decodedUri.err, path |-> clearSlashes(path)]
    ELSE LET match == hrefHashMatch(st.location)
             path == IF match.kind = "string" THEN match.chars ELSE <<>>
         IN  [err |-> "none", path |-> clearSlashes(path)]

_loadCurrent(st) ==
    Only({IF currentPath.err # "none" THEN Threw(st, currentPath.err, <<>>)
          ELSE IF Str(currentPath.path) = st._loadedPath
               THEN Returned(st, Bool(FALSE), <<>>)
               ELSE _load(st, currentPath.path)
          : currentPath \in {getCurrent(st)}})

\* a merge that copies every key the caller supplies over the defaults
MergeOptions_copiesAll(options) ==
    options @@ [kind |-> "object", mode |-> _DEF_OPTIONS.mode,
                root |-> _DEF_OPTIONS.root, silent |-> _DEF_OPTIONS.silent]

\* the for loop of listen over the keys of _DEF_OPTIONS; this._options was
\* just set to {}, so a key the caller left out takes its default.  The
\* caller's options are a function from the keys it supplies to their values.
MergeOptions(options) ==
    [kind |-> "object",
     mode |-> IF "mode" \in DOMAIN options THEN options.mode ELSE _DEF_OPTIONS.mode,
     root |-> IF "root" \in DOMAIN options THEN options.root ELSE _DEF_OPTIONS.root,
     silent |-> IF "silent" \in DOMAIN options THEN options.silent ELSE _DEF_OPTIONS.silent]

\* startListening with a switch whose default falls through to the hash case
startListening_fallback(st, options) ==
    Only({Only({IF configured._options.silent
                THEN Returned(subscribed, Bool(FALSE), <<>>)
                ELSE _loadCurrent(subscribed)
                : subscribed \in
                    {[configured EXCEPT !.listeners =
                         @ \cup (IF configured._options.mode = "history"
                                 THEN {"popstate"} ELSE {"hashchange"})]}})
          : configured \in {[st EXCEPT !._options = MergeOptions(options)]}})

\* listen after its guard: the options are merged, the listener of the mode is
\* added (an invalid mode throws with the merged options already stored), and
\* the current location is loaded unless silent
startListening(st, options) ==
    Only({LET mode == configured._options.mode
          IN  IF mode \notin {"history", "hash"}
              THEN Threw(configured, "InvalidMode", <<>>)
              ELSE Only({IF configured._options.silent
                         THEN Returned(subscribed, Bool(FALSE), <<>>)
                         ELSE _loadCurrent(subscribed)
                         : subscribed \in
                             {[configured EXCEPT !.listeners =
                                  @ \cup (IF mode = "history" THEN {"popstate"}
                                          ELSE {"hashchange"})]}})
          : configured \in {[st EXCEPT !._options = MergeOptions(options)]}})

\* listen without its guard: a second listen reconfigures the running router
listen_unguarded(st, options) == startListening(st, options)

listen(st, options) ==
    IF HasOptions(st) THEN Threw(st, "AlreadyListening", <<>>)
    ELSE startListening(st, options)

\* stop that leaves the handler table as it is
stop_keepHandlers(st) ==
    IF ~HasOptions(st) THEN Threw(st, "TypeError", <<>>)
    ELSE LET left ==
                 IF st._options.mode = "history"
                 THEN [st EXCEPT !.listeners = @ \ {"popstate"},
                                 !.location = pushState(@, st._options.root)]
                 ELSE [st EXCEPT !.listeners = @ \ {"hashchange"},
                                 !.location = setHash(@, <<"#">>)]
         IN  Returned([left EXCEPT !._loadedPath = Null, !._options = Null],
                      RouterRef, <<>>)

\* stop that leaves the options of the session in place
stop_keepOptions(st) ==
    IF ~HasOptions(st) THEN Threw(st, "TypeError", <<>>)
    ELSE LET left ==
                 IF st._options.mode = "history"
                 THEN [st EXCEPT !.listeners = @ \ {"popstate"},
                                 !.location = pushState(@, st._options.root)]
                 ELSE [st EXCEPT !.listeners = @ \ {"hashchange"},
                                 !.location = setHash(@, <<"#">>)]
         IN  Returned([left EXCEPT !._handlers = <<>>, !._loadedPath = Null],
                      RouterRef, <<>>)

\* this._options.mode on an undefined or null _options is a TypeError
\* stop that leaves the listener of the mode subscribed
stop_keepListeners(st) ==
    IF ~HasOptions(st) THEN Threw(st, "TypeError", <<>>)
    ELSE LET left ==
                 IF st._options.mode = "history"
                 THEN [st EXCEPT !.location = pushState(@, st._options.root)]
                 ELSE [st EXCEPT !.location = setHash(@, <<"#">>)]
         IN  Returned([left EXCEPT !._handlers = <<>>,
                                   !._loadedPath = Null,
                                   !._options = Null],
                      RouterRef, <<>>)

\* stop that leaves the address bar as it is
stop_keepLocation(st) ==
    IF ~HasOptions(st) THEN Threw(st, "TypeError", <<>>)
    ELSE LET left ==
                 IF st._options.mode = "history"
                 THEN [st EXCEPT !.listeners = @ \ {"popstate"}]
                 ELSE [st EXCEPT !.listeners = @ \ {"hashchange"}]
         IN  Returned([left EXCEPT !._handlers = <<>>,
                                   !._loadedPath = Null,
                                   !._options = Null],
                      RouterRef, <<>>)

stop(st) ==
    IF ~HasOptions(st) THEN Threw(st, "TypeError", <<>>)
    ELSE LET left ==
                 IF st._options.mode = "history"
                 THEN [st EXCEPT !.listeners = @ \ {"popstate"},
                                 !.location = pushState(@, st._options.root)]
                 ELSE [st EXCEPT !.listeners = @ \ {"hashchange"},
                                 !.location = setHash(@, <<"#">>)]
         IN  Returned([left EXCEPT !._handlers = <<>>,
                                   !._loadedPath = Null,
                                   !._options = Null],
                      RouterRef, <<>>)

RECURSIVE ExtractLoop(_, _, _, _)
\* the for loop of _extractHandlers over routeGroup._handlers
ExtractLoop(parentPath, groupHandlers, i, handlers) ==
    IF i > Len(groupHandlers) THEN handlers
    ELSE LET itHandler == groupHandlers[i]
             isFn == itHandler.path.kind = "function"
             activate == IF isFn THEN itHandler.path ELSE itHandler.activate
             subPath == IF isFn THEN Undefined ELSE Str(clearSlashes(itHandler.path.chars))
             pathExp ==
                 IF parentPath.kind = "undefined" \/ subPath.kind = "undefined"
                 THEN IF parentPath.kind = "undefined" /\ subPath.kind = "undefined"
                      THEN DEF_ROUTE
                      ELSE IF parentPath.kind = "undefined"
                           THEN stringToPathExp(subPath.chars)
                           ELSE stringToPathExp(parentPath.chars)
                 ELSE stringToPathExp(parentPath.chars \o <<"/">> \o subPath.chars)
         IN  ExtractLoop(parentPath, groupHandlers, i + 1,
                         Append(handlers, [pathExp |-> pathExp, activate |-> activate.id]))

\* a flattening in which a member without a sub-path is always a default entry
_extractHandlers_defaultWithoutSub(parentPath, routeGroup, handlers) ==
    handlers \o
    [i \in 1..Len(routeGroup._handlers) |->
        LET itHandler == routeGroup._handlers[i]
        IN  IF itHandler.path.kind = "function"
            THEN [pathExp |-> DEF_ROUTE, activate |-> itHandler.path.id]
            ELSE [pathExp |->
                      IF parentPath.kind = "undefined"
                      THEN stringToPathExp(clearSlashes(itHandler.path.chars))
                      ELSE stringToPathExp(parentPath.chars \o <<"/">>
                                           \o clearSlashes(itHandler.path.chars)),
                  activate |-> itHandler.activate.id]]

_extractHandlers(parentPath, routeGroup, handlers) ==
    ExtractLoop(parentPath, routeGroup._handlers, 1, handlers)

\* use is called with (path, activate), (activate), (group) or (path, group);
\* a group is mounted by replacing the table with what _extractHandlers
\* returns, and _extractHandlers is called without its third argument, so it
\* starts from its default, the empty list
use(st, path, activate) ==
    IF activate.kind = "RouteGroup" \/ path.kind = "RouteGroup"
    THEN LET group == IF path.kind = "RouteGroup" THEN path ELSE activate
             parentPath == IF path.kind = "RouteGroup" THEN Undefined
                           ELSE Str(clearSlashes(path.chars))
         IN  Returned([st EXCEPT !._handlers = _extractHandlers(parentPath, group, <<>>)],
                      RouterRef, <<>>)
    ELSE LET callback == IF path.kind = "function" THEN path ELSE activate
             pathExp == IF path.kind = "function" THEN DEF_ROUTE
                        ELSE stringToPathExp(clearSlashes(path.chars))
         IN  Returned([st EXCEPT !._handlers =
                           Append(@, [pathExp |-> pathExp, activate |-> callback.id])],
                      RouterRef, <<>>)

\* the location write of navigate; a mode that is neither case writes nothing
writeLocation(st, path) ==
    CASE st._options.mode = "history" ->
             [st EXCEPT !.location = pushState(@, st._options.root \o path)]
      [] st._options.mode = "hash" ->
             [st EXCEPT !.location = setHash(@, <<"#">> \o path)]
      [] OTHER -> st

\* navigate that applies the guard of _loadCurrent to the path it is given
navigate_deduped(st, path) ==
    IF ~HasOptions(st)
    THEN Threw(st, "NotListening", <<>>)
    ELSE Only({Only({IF Str(cleared) = st._loadedPath
                     THEN Returned(written, Bool(FALSE), <<>>)
                     ELSE _load(written, cleared)
                     : written \in {writeLocation(st, cleared)}})
               : cleared \in {clearSlashes(path)}})

\* navigate without its guard: with no options there is no mode to write the
\* location for, and the path is loaded all the same
navigate_unguarded(st, path) ==
    Only({IF HasOptions(st)
          THEN Only({_load(written, cleared) : written \in {writeLocation(st, cleared)}})
          ELSE _load(st, cleared)
          : cleared \in {clearSlashes(path)}})

\* navigate that writes the location only for a path that is not loaded yet
navigate_writesOnChange(st, path) ==
    IF ~HasOptions(st)
    THEN Threw(st, "NotListening", <<>>)
    ELSE Only({Only({_load(written, cleared)
                     : written \in {IF Str(cleared) = st._loadedPath THEN st
                                    ELSE writeLocation(st, cleared)}})
               : cleared \in {clearSlashes(path)}})

\* navigate that loads the path before it writes the location
navigate_loadsFirst(st, path) ==
    IF ~HasOptions(st)
    THEN Threw(st, "NotListening", <<>>)
    ELSE Only({Only({[loaded EXCEPT !.st.location = writeLocation(st, cleared).location]
                     : loaded \in {_load(st, cleared)}})
               : cleared \in {clearSlashes(path)}})

navigate(st, path) ==
    IF ~HasOptions(st)
    THEN Threw(st, "NotListening", <<>>)
    ELSE Only({Only({_load(written, cleared) : written \in {writeLocation(st, cleared)}})
               : cleared \in {clearSlashes(path)}})

\* the window, which is what this is in a listener the browser calls
Window == [kind |-> "Window"]

\* _loadCurrent called on a receiver: it begins with this.getCurrent(), and
\* only the Router has a getCurrent.  listen passes this._loadCurrent to
\* addEventListener as a plain function, so the browser calls it on the window.
_loadCurrentOn(receiver, st) ==
    IF receiver.kind = "Router" THEN _loadCurrent(st)
    ELSE Threw(st, "TypeError", <<>>)

\* the browser delivers an event of a type to the window: the listener
\* subscribed for it, if any, runs; what it throws is reported, not propagated
dispatchEvent(st, type) ==
    IF type \in st.listeners THEN _loadCurrentOn(Window, st)
    ELSE Returned(st, Undefined, <<>>)

(***************************************************************************)
(* easy-router: History.  The state is a record est with the fields        *)
(* _started (the static flag), histories (the fields of each instance) and *)
(* location.  An instance carries, next to its fields, the events of the   *)
(* window its _checkUrl is subscribed to.                                  *)
(***************************************************************************)

\* the browser has history.pushState, and the window has onhashchange
HistoryPushState == TRUE

OnHashChange == TRUE

\* the value is the boolean true
IsTrue(v) == v.kind = "boolean" /\ v.b

\* the text a value contributes to a string concatenation
TextOf(v) == IF v.kind = "string" THEN v.chars ELSE UndefinedText

\* a regular expression that matches one text exactly, and its test()
RegExpOf(text) == [kind |-> "RegExp", text |-> text]

\* The regular expression Router._routeToRegExp builds is kept as the list of
\* the parts of its source: a character, '([^/?]+)' for a named parameter,
\* '([^?]*?)' for a splat and '(?:...)?' for an optional part; every such
\* expression ends with '(?:\?([\s\S]*))?$'.
CharItem(c) == [t |-> "char", c |-> c, items |-> <<>>]

ParamItem == [t |-> "param", c |-> "", items |-> <<>>]

SplatItem == [t |-> "splat", c |-> "", items |-> <<>>]

OptionalItem(items) == [t |-> "optional", c |-> "", items |-> items]

\* the length of the longest prefix of s without a character of the set
RunLength(s, stops) ==
    IF \E i \in 1..Len(s) : s[i] \in stops
    THEN (CHOOSE i \in 1..Len(s) : s[i] \in stops /\ \A j \in 1..(i - 1) : s[j] \notin stops) - 1
    ELSE Len(s)

\* the length of the word (\w+) that begins at position from of s
WordLength(s, from) ==
    IF \E i \in from..Len(s) : ~IsWordChar(s[i])
    THEN (CHOOSE i \in from..Len(s) : ~IsWordChar(s[i])
                                      /\ \A j \in from..(i - 1) : IsWordChar(s[j])) - from
    ELSE Len(s) - from + 1

RECURSIVE RouteItems(_)
\* the replacements of _routeToRegExp on a route string whose parentheses are
\* balanced and not nested: optionalParam = /\((.*?)\)/g, namedParam =
\* /(\(\?)?:\w+/g and splatParam = /\*\w+/g; any other character stands for itself
RouteItems(route) ==
    IF route = <<>> THEN <<>>
    ELSE IF route[1] = "(" /\ IndexOf(route, ")") # 0
    THEN <<OptionalItem(RouteItems(Slice(route, 2, IndexOf(route, ")") - 1)))>>
         \o RouteItems(Slice(route, IndexOf(route, ")") + 1, Len(route)))
    ELSE IF route[1] = ":" /\ WordLength(route, 2) > 0
    THEN <<ParamItem>> \o RouteItems(Slice(route, 2 + WordLength(route, 2), Len(route)))
    ELSE IF route[1] = "*" /\ WordLength(route, 2) > 0
    THEN <<SplatItem>> \o RouteItems(Slice(route, 2 + WordLength(route, 2), Len(route)))
    ELSE <<CharItem(route[1])>> \o RouteItems(Tail(route))

RECURSIVE GroupCount(_)
\* the number of capturing groups in a list of parts
GroupCount(items) ==
    IF items = <<>> THEN 0
    ELSE (CASE Head(items).t \in {"param", "splat"} -> 1
            [] Head(items).t = "optional" -> GroupCount(Head(items).items)
            [] OTHER -> 0) + GroupCount(Tail(items))

NoExec == [ok |-> FALSE, groups |-> <<>>]

RECURSIVE ExecItems(_, _), ExecParam(_, _, _), ExecSplat(_, _, _)
\* the match of a list of parts, followed by the end of the expression,
\* against the whole of s: the groups of the first match in the order a
\* backtracking matcher tries them
ExecItems(items, s) ==
    IF items = <<>>
    THEN IF s = <<>> THEN [ok |-> TRUE, groups |-> <<Undefined>>]
         ELSE IF s[1] = "?" THEN [ok |-> TRUE, groups |-> <<Str(Tail(s))>>]
         ELSE NoExec
    ELSE CASE Head(items).t = "char" ->
                  IF s # <<>> /\ s[1] = Head(items).c THEN ExecItems(Tail(items), Tail(s))
                  ELSE NoExec
           [] Head(items).t = "param" ->
                  ExecParam(Tail(items), s, RunLength(s, {"/", "?"}))
           [] Head(items).t = "splat" ->
                  ExecSplat(Tail(items), s, 0)
           [] OTHER ->
                  Only({IF taken.ok THEN taken
                        ELSE Only({IF skipped.ok
                                   THEN [skipped EXCEPT !.groups =
                                            [k \in 1..GroupCount(Head(items).items)
                                                |-> Undefined] \o @]
                                   ELSE NoExec
                                   : skipped \in {ExecItems(Tail(items), s)}})
                        : taken \in {ExecItems(Head(items).items \o Tail(items), s)}})

\* '([^/?]+)' is greedy: the longest run is tried first
ExecParam(rest, s, n) ==
    IF n < 1 THEN NoExec
    ELSE Only({IF after.ok THEN [after EXCEPT !.groups = <<Str(Slice(s, 1, n))>> \o @]
               ELSE ExecParam(rest, s, n - 1)
               : after \in {ExecItems(rest, Slice(s, n + 1, Len(s)))}})

\* '([^?]*?)' is lazy: the shortest run is tried first
ExecSplat(rest, s, n) ==
    IF n > RunLength(s, {"?"}) THEN NoExec
    ELSE Only({IF after.ok THEN [after EXCEPT !.groups = <<Str(Slice(s, 1, n))>> \o @]
               ELSE ExecSplat(rest, s, n + 1)
               : after \in {ExecItems(rest, Slice(s, n + 1, Len(s)))}})

\* route.test(fragment)
RegExpTest(route, fragment) ==
    IF "items" \in DOMAIN route THEN ExecItems(route.items, fragment).ok
    ELSE fragment = route.text

\* the number of spaces s ends with
TrailingSpaces(s) ==
    IF \E i \in 1..Len(s) : s[i] # " "
    THEN Len(s) - (CHOOSE i \in 1..Len(s) : s[i] # " " /\ \A j \in (i + 1)..Len(s) : s[j] = " ")
    ELSE Len(s)

\* replace(routeStripper, '') with routeStripper = /^[#\/]|\s+$/g: one leading
\* "#" or "/" and the white space at the end are removed
routeStripper(s) ==
    LET rest == IF s # <<>> /\ s[1] \in {"#", "/"} THEN Tail(s) ELSE s
    IN  Slice(rest, 1, Len(rest) - TrailingSpaces(rest))

\* replace(rootStripper, '/') with rootStripper = /^\/+|\/+$/g, for a string
\* that begins and ends with a slash
rootStripper(s) ==
    IF LeadingSlashes(s) = Len(s) THEN <<"/">>
    ELSE <<"/">> \o Slice(s, LeadingSlashes(s) + 1, Len(s) - TrailingSlashes(s)) \o <<"/">>

\* replace(trailingSlash, '') with trailingSlash = /\/$/
trailingSlash(s) ==
    IF s # <<>> /\ s[Len(s)] = "/" THEN Slice(s, 1, Len(s) - 1) ELSE s

\* replace(pathStripper, '') with pathStripper = /#.*$/
pathStripper(s) ==
    IF IndexOf(s, "#") = 0 THEN s ELSE Slice(s, 1, IndexOf(s, "#") - 1)

\* s.lastIndexOf(prefix, 0) === 0
StartsWith(s, prefix) == Len(prefix) <= Len(s) /\ Slice(s, 1, Len(prefix)) = prefix

\* the document URL after pushState, replaceState or location.assign with a
\* url: a url that does not begin with a slash is resolved against the
\* directory of the current path
ResolveUrl(location, url) ==
    LET h == IndexOf(url, "#")
        beforeHash == IF h = 0 THEN url ELSE Slice(url, 1, h - 1)
        q == IndexOf(beforeHash, "?")
        path == IF q = 0 THEN beforeHash ELSE Slice(beforeHash, 1, q - 1)
        dir == Slice(location.pathname, 1,
                     Len(location.pathname) - Len(Split(location.pathname, "/")
                                                    [Len(Split(location.pathname, "/"))]))
    IN  [pathname |-> IF path # <<>> /\ path[1] = "/" THEN path ELSE dir \o path,
         search |-> IF q = 0 \/ q = Len(beforeHash) THEN <<>>
                    ELSE Slice(beforeHash, q, Len(beforeHash)),
         hash |-> IF h = 0 THEN Undefined ELSE Str(Slice(url, h + 1, Len(url)))]

\* the fields of an instance after construction: _handlers is [], the others
\* are declared without a value
NewHistory ==
    [_root |-> Undefined, _hasPushState |-> Undefined, _wantsHashChange |-> Undefined,
     _wantsPushState |-> Undefined, _fragment |-> Undefined, _handlers |-> <<>>,
     _evtHandlers |-> <<>>, listening |-> {}]

\* atRoot of an instance
History_atRoot(self, location) ==
    (IF location.pathname # <<>> /\ location.pathname[Len(location.pathname)] # "/"
     THEN location.pathname \o <<"/">>
     ELSE location.pathname) = TextOf(self._root)

\* getHash: match[1] of href.match(/#(.*)$/), or ''
History_getHash(location) ==
    IF location.hash.kind = "string" THEN location.hash.chars ELSE <<>>

\* location.hash is truthy: the URL has a fragment that is not empty
HasHash(location) == location.hash.kind = "string" /\ location.hash.chars # <<>>

\* getFragment of an instance; decodeURI may raise URIError
History_getFragment(self, location, fragment, forcePushState) ==
    Only({[decoded EXCEPT !.chars = routeStripper(@)]
          : decoded \in
              {IF fragment.kind \in {"undefined", "null"}
               THEN IF IsTrue(self._hasPushState) \/ ~IsTrue(self._wantsHashChange)
                       \/ forcePushState
                    THEN Only({IF whole.err = "none"
                                  /\ StartsWith(whole.chars, trailingSlash(TextOf(self._root)))
                               THEN [whole EXCEPT !.chars =
                                        Slice(@, Len(trailingSlash(TextOf(self._root))) + 1,
                                              Len(@))]
                               ELSE whole
                               : whole \in {decodeURI(location.pathname \o location.search)}})
                    ELSE [err |-> "none", chars |-> History_getHash(location)]
               ELSE decodeURI(fragment.chars)}})

\* the _loadUrl of a History that calls every handler whose route tests true
History__loadUrl_everyMatch(est, h, fragment) ==
    Only({IF current.err # "none" THEN Threw(est, current.err, <<>>)
          ELSE LET handlers == est.histories[h]._handlers
                   matching == SelectSeq(handlers,
                                         LAMBDA handler : RegExpTest(handler.route, current.chars))
                   loaded == [est EXCEPT !.histories[h]._fragment = Str(current.chars)]
               IN  Returned(loaded, Bool(matching # <<>>),
                            [k \in 1..Len(matching)
                                |-> [self |-> h, callback |-> matching[k].callback,
                                     fragment |-> current.chars]])
          : current \in {History_getFragment(est.histories[h], est.location,
                                             fragment, FALSE)}})

\* _loadUrl of instance h: the first handler whose route tests true is called
History__loadUrl(est, h, fragment) ==
    Only({IF current.err # "none" THEN Threw(est, current.err, <<>>)
          ELSE LET handlers == est.histories[h]._handlers
                   matching == {i \in 1..Len(handlers) :
                                    RegExpTest(handlers[i].route, current.chars)}
                   first == CHOOSE i \in matching : \A j \in matching : i <= j
                   loaded == [est EXCEPT !.histories[h]._fragment = Str(current.chars)]
               IN  IF matching = {} THEN Returned(loaded, Bool(FALSE), <<>>)
                   ELSE Returned(loaded, Bool(TRUE),
                                 <<[self |-> h, callback |-> handlers[first].callback,
                                    fragment |-> current.chars]>>)
          : current \in {History_getFragment(est.histories[h], est.location,
                                             fragment, FALSE)}})

\* the transition of start between pushState and hash URLs, when both are wanted
StartTransition(est, h) ==
    LET self == est.histories[h]
    IN  IF IsTrue(self._wantsHashChange) /\ IsTrue(self._wantsPushState)
        THEN IF ~IsTrue(self._hasPushState) /\ ~History_atRoot(self, est.location)
             THEN Only({[redirect |-> TRUE,
                         err |-> forced.err,
                         st |-> IF forced.err # "none" THEN est
                                ELSE [est EXCEPT
                                        !.histories[h]._fragment = Str(forced.chars),
                                        !.location = ResolveUrl(@, TextOf(self._root) \o <<"#">>
                                                                   \o forced.chars)]]
                        : forced \in {History_getFragment(self, est.location, Null, TRUE)}})
             ELSE IF IsTrue(self._hasPushState) /\ History_atRoot(self, est.location)
                     /\ HasHash(est.location)
                  THEN [redirect |-> FALSE,
                        err |-> "none",
                        st |-> [est EXCEPT
                                  !.histories[h]._fragment =
                                      Str(routeStripper(History_getHash(est.location))),
                                  !.location =
                                      ResolveUrl(@, TextOf(self._root)
                                                    \o routeStripper(History_getHash(est.location)))]]
                  ELSE [redirect |-> FALSE, err |-> "none", st |-> est]
        ELSE [redirect |-> FALSE, err |-> "none", st |-> est]

\* start of instance h
History_start(est, h, options) ==
    IF est._started THEN Threw(est, "Error", <<>>)
    ELSE LET wantsHashChange == ~("hashChange" \in DOMAIN options /\ options.hashChange = FALSE)
             wantsPushState == "pushState" \in DOMAIN options /\ options.pushState
             hasPushState == wantsPushState /\ HistoryPushState
             configured ==
                 [est.histories[h] EXCEPT
                    !._root = Str(IF "root" \in DOMAIN options /\ options.root # <<>>
                                  THEN options.root ELSE <<"/">>),
                    !._wantsHashChange = Bool(wantsHashChange),
                    !._wantsPushState = Bool(wantsPushState),
                    !._hasPushState = Bool(hasPushState)]
             flagged == [est EXCEPT !._started = TRUE, !.histories[h] = configured]
         IN  Only({IF fragment.err # "none" THEN Threw(flagged, fragment.err, <<>>)
                   ELSE Only({IF moved.err # "none" THEN Threw(moved.st, moved.err, <<>>)
                              ELSE IF moved.redirect THEN Returned(moved.st, Bool(TRUE), <<>>)
                              ELSE IF ~("silent" \in DOMAIN options /\ options.silent = TRUE)
                              THEN History__loadUrl(moved.st, h, Undefined)
                              ELSE Returned(moved.st, Bool(FALSE), <<>>)
                              : moved \in
                                  {StartTransition(
                                      [flagged EXCEPT
                                         !.histories[h]._root =
                                             Str(rootStripper(<<"/">> \o @.chars \o <<"/">>)),
                                         !.histories[h].listening =
                                             @ \cup (IF hasPushState THEN {"popstate"}
                                                     ELSE IF wantsHashChange /\ OnHashChange
                                                          THEN {"hashchange"} ELSE {}),
                                         !.histories[h]._fragment = Str(fragment.chars)],
                                      h)}})
                   : fragment \in {History_getFragment(configured, est.location,
                                                       Undefined, FALSE)}})

\* stop of instance h: its _checkUrl is unsubscribed and the shared flag is cleared
History_stop(est, h) ==
    Returned([est EXCEPT !._started = FALSE, !.histories[h].listening = {}],
             Undefined, <<>>)

\* addHandler of instance h: the new handler goes to the front
History_addHandler(est, h, rRoute, callback) ==
    Returned([est EXCEPT !.histories[h]._handlers =
                  <<[route |-> rRoute, callback |-> callback]>> \o @],
             Undefined, <<>>)

\* _checkUrl of instance h
History__checkUrl(est, h) ==
    Only({IF fragment.err # "none" THEN Threw(est, fragment.err, <<>>)
          ELSE IF Str(fragment.chars) = est.histories[h]._fragment
          THEN Returned(est, Bool(FALSE), <<>>)
          ELSE Only({[loaded EXCEPT !.ret = Undefined]
                     : loaded \in {History__loadUrl(est, h, Undefined)}})
          : fragment \in {History_getFragment(est.histories[h], est.location,
                                              Undefined, FALSE)}})

\* _updateHash: location.replace(href without its hash + '#' + fragment) and
\* location.hash = '#' + fragment leave the same document URL
History__updateHash(location, fragment, replace) ==
    IF replace THEN [location EXCEPT !.hash = Str(fragment)]
    ELSE setHash(location, <<"#">> \o fragment)

\* the part of navigate after the two guards: the location write of the mode
\* and the load, for the fragment and the url navigate has computed
NavigateWrite(est, h, fragmentAux, url, options) ==
    LET self == est.histories[h]
        replace == "replace" \in DOMAIN options /\ options.replace
        moved == [est EXCEPT !.histories[h]._fragment = Str(fragmentAux)]
        target == IF fragmentAux = <<>> /\ url # <<"/">>
                  THEN Slice(url, 1, Len(url) - 1) ELSE url
    IN  IF IsTrue(self._hasPushState)
        THEN [left |-> FALSE,
              st |-> [moved EXCEPT !.location = ResolveUrl(@, target)]]
        ELSE IF IsTrue(self._wantsHashChange)
             THEN [left |-> FALSE,
                   st |-> [moved EXCEPT !.location =
                                History__updateHash(@, fragmentAux, replace)]]
             ELSE [left |-> TRUE,
                   st |-> [moved EXCEPT !.location = ResolveUrl(@, target)]]

\* navigate that loads whatever options.trigger is
History_navigate_alwaysTriggers(est, h, fragment, options) ==
    IF ~est._started THEN Returned(est, Bool(FALSE), <<>>)
    ELSE Only({IF given.err # "none" THEN Threw(est, given.err, <<>>)
               ELSE IF est.histories[h]._fragment = Str(pathStripper(given.chars))
               THEN Returned(est, Bool(FALSE), <<>>)
               ELSE Only({IF written.left THEN Returned(written.st, Undefined, <<>>)
                          ELSE History__loadUrl(written.st, h,
                                                Str(pathStripper(given.chars)))
                          : written \in
                              {NavigateWrite(est, h, pathStripper(given.chars),
                                             TextOf(est.histories[h]._root) \o given.chars,
                                             options)}})
               : given \in {History_getFragment(est.histories[h], est.location,
                                                Str(fragment), FALSE)}})

\* navigate of instance h; location.assign(url) returns undefined
History_navigate(est, h, fragment, options) ==
    IF ~est._started THEN Returned(est, Bool(FALSE), <<>>)
    ELSE Only({IF given.err # "none" THEN Threw(est, given.err, <<>>)
               ELSE IF est.histories[h]._fragment = Str(pathStripper(given.chars))
               THEN Returned(est, Bool(FALSE), <<>>)
               ELSE Only({IF written.left THEN Returned(written.st, Undefined, <<>>)
                          ELSE IF ~("trigger" \in DOMAIN options /\ options.trigger = FALSE)
                          THEN History__loadUrl(written.st, h,
                                                Str(pathStripper(given.chars)))
                          ELSE Returned(written.st, Bool(FALSE), <<>>)
                          : written \in
                              {NavigateWrite(est, h, pathStripper(given.chars),
                                             TextOf(est.histories[h]._root) \o given.chars,
                                             options)}})
               : given \in {History_getFragment(est.histories[h], est.location,
                                                Str(fragment), FALSE)}})

\* the History instances of the page: Router.history and one more
Histories == <<"history", "other">>

RECURSIVE DispatchFrom(_, _, _, _)
\* the listeners of an event type run in turn; what one throws is reported
\* by the browser and the next one still runs
DispatchFrom(est, type, k, calls) ==
    IF k > Len(Histories) THEN Returned(est, Undefined, calls)
    ELSE IF type \in est.histories[Histories[k]].listening
         THEN Only({DispatchFrom(checked.st, type, k + 1, calls \o checked.calls)
                    : checked \in {History__checkUrl(est, Histories[k])}})
         ELSE DispatchFrom(est, type, k + 1, calls)

\* the browser delivers an event of a type to the window
History_dispatchEvent(est, type) == DispatchFrom(est, type, 1, <<>>)

(***************************************************************************)
(* easy-router: Router.  The state est has one more field, router, with    *)
(* the fields of the Router instance of the page; its handlers are         *)
(* registered on the History instance "history" (Router.history).  The     *)
(* event handlers of an object are kept as one list of (event, callback)   *)
(* pairs in the order of the calls of on().                                *)
(***************************************************************************)

\* the fields of a Router before its constructor has run
NewRouter == [_opts |-> Undefined, _old |-> Undefined, _evtHandlers |-> <<>>]

\* the handler objects of the application: a route, an activate method and,
\* for some, a deactivate method
HandlerOf(name) ==
    CASE name = "home" -> [route |-> <<"a">>, deactivate |-> TRUE]
      [] name = "user" -> [route |-> <<":", "i", "d">>, deactivate |-> FALSE]
      [] OTHER -> [route |-> <<"a", "(", "/", "*", "x", ")">>, deactivate |-> TRUE]

\* what a listener of route:before and route:after does with the event it is
\* given: "veto" sets canceled, the others leave it as it is
ListenerBody(id, evtRoute) ==
    IF id = "veto" THEN [evtRoute EXCEPT !.canceled = TRUE] ELSE evtRoute

\* on: the callback is pushed to the list of the event
History_on(evtHandlers, evt, callback) ==
    Append(evtHandlers, [evt |-> evt, callback |-> callback])

\* off: the first occurrence of the callback in the list of the event is removed
History_off(evtHandlers, evt, callback) ==
    LET found == {i \in 1..Len(evtHandlers) :
                      evtHandlers[i] = [evt |-> evt, callback |-> callback]}
        first == CHOOSE i \in found : \A j \in found : i <= j
    IN  IF found = {} THEN evtHandlers
        ELSE Slice(evtHandlers, 1, first - 1) \o Slice(evtHandlers, first + 1, Len(evtHandlers))

RECURSIVE TriggerFrom(_, _, _, _, _, _, _)
\* the loop of trigger: the callbacks of the event are applied in turn to the
\* event object; each application is recorded with the object it was called
\* on, the callback, and the old-route record of the Router at that moment
TriggerFrom(evtHandlers, evt, self, evtRoute, old, i, trace) ==
    IF i > Len(evtHandlers) THEN [evtRoute |-> evtRoute, trace |-> trace]
    ELSE IF evtHandlers[i].evt = evt
         THEN TriggerFrom(evtHandlers, evt, self,
                          ListenerBody(evtHandlers[i].callback, evtRoute), old, i + 1,
                          Append(trace, [step |-> evt, on |-> self,
                                         by |-> evtHandlers[i].callback, _old |-> old]))
         ELSE TriggerFrom(evtHandlers, evt, self, evtRoute, old, i + 1, trace)

\* trigger(evt, evtRoute) on an object with the given event handlers
History_trigger(evtHandlers, evt, self, evtRoute, old) ==
    TriggerFrom(evtHandlers, evt, self, evtRoute, old, 1, <<>>)

\* _routeToRegExp
Router__routeToRegExp(route) == [kind |-> "RegExp", items |-> RouteItems(route)]

\* _extractParameters: the groups of route.exec(fragment), all but the last
\* one decoded; decodeURIComponent may raise URIError
Router__extractParameters(route, fragment) ==
    LET groups == ExecItems(route.items, fragment).groups
        decoded == [i \in 1..Len(groups)
                       |-> IF i = Len(groups) \/ groups[i].kind = "undefined"
                           THEN [err |-> "none", value |-> groups[i]]
                           ELSE Only({[err |-> d.err, value |-> Str(d.chars)]
                                      : d \in {decodeURIComponent(groups[i])}})]
    IN  IF \E i \in 1..Len(groups) : decoded[i].err # "none"
        THEN [err |-> "URIError", params |-> <<>>]
        ELSE [err |-> "none", params |-> [i \in 1..Len(groups) |-> decoded[i].value]]

\* the callback of a router that goes on after a listener has set canceled
RouteCallback_ignoresCanceled(est, name, fragment, message) ==
    Only({IF extracted.err # "none" THEN [st |-> est, err |-> extracted.err, trace |-> <<>>]
          ELSE LET old == est.router._old
                   evtRoute == [new |-> [fragment |-> fragment, params |-> extracted.params,
                                         message |-> message],
                                old |-> IF old.kind = "object"
                                        THEN [kind |-> "object", fragment |-> old.fragment,
                                              params |-> old.params]
                                        ELSE Undefined,
                                canceled |-> FALSE]
               IN  Only({Only({Only({Only({
                     [st |-> [est EXCEPT !.router._old =
                                  [kind |-> "object", fragment |-> fragment,
                                   params |-> extracted.params, handler |-> name]],
                      err |-> "none",
                      trace |-> before.trace \o beforeAll.trace
                                \o (IF old.kind = "object" /\ HandlerOf(old.handler).deactivate
                                    THEN <<[step |-> "deactivate", on |-> "handler",
                                            by |-> old.handler, _old |-> old]>>
                                    ELSE <<>>)
                                \o <<[step |-> "activate", on |-> "handler", by |-> name,
                                      _old |-> old]>>
                                \o after.trace \o afterAll.trace]
                     : afterAll \in {History_trigger(est.histories["history"]._evtHandlers,
                                                     "route:after", "history",
                                                     after.evtRoute, old)}})
                     : after \in {History_trigger(est.router._evtHandlers, "route:after",
                                                  "router", beforeAll.evtRoute, old)}})
                     : beforeAll \in {History_trigger(est.histories["history"]._evtHandlers,
                                                      "route:before", "history",
                                                      before.evtRoute, old)}})
                     : before \in {History_trigger(est.router._evtHandlers, "route:before",
                                                   "router", evtRoute, old)}})
          : extracted \in {Router__extractParameters(Router__routeToRegExp(HandlerOf(name).route),
                                                     fragment)}})

\* the callback addHandler registers on Router.history for a handler object:
\* route:before on the router and on the history, the canceled check, the
\* deactivate of the old handler, the activate of this one, route:after, and
\* the assignment of the old-route record
RouteCallback(est, name, fragment, message) ==
    Only({IF extracted.err # "none" THEN [st |-> est, err |-> extracted.err, trace |-> <<>>]
          ELSE LET old == est.router._old
                   evtRoute == [new |-> [fragment |-> fragment, params |-> extracted.params,
                                         message |-> message],
                                old |-> IF old.kind = "object"
                                        THEN [kind |-> "object", fragment |-> old.fragment,
                                              params |-> old.params]
                                        ELSE Undefined,
                                canceled |-> FALSE]
               IN  Only({Only({
                     IF beforeAll.evtRoute.canceled
                     THEN [st |-> est, err |-> "none",
                           trace |-> before.trace \o beforeAll.trace]
                     ELSE Only({Only({
                            [st |-> [est EXCEPT !.router._old =
                                         [kind |-> "object", fragment |-> fragment,
                                          params |-> extracted.params, handler |-> name]],
                             err |-> "none",
                             trace |-> before.trace \o beforeAll.trace
                                       \o (IF old.kind = "object"
                                              /\ HandlerOf(old.handler).deactivate
                                           THEN <<[step |-> "deactivate", on |-> "handler",
                                                   by |-> old.handler, _old |-> old]>>
                                           ELSE <<>>)
                                       \o <<[step |-> "activate", on |-> "handler",
                                             by |-> name, _old |-> old]>>
                                       \o after.trace \o afterAll.trace]
                            : afterAll \in {History_trigger(
                                                est.histories["history"]._evtHandlers,
                                                "route:after", "history", after.evtRoute, old)}})
                            : after \in {History_trigger(est.router._evtHandlers,
                                                         "route:after", "router",
                                                         beforeAll.evtRoute, old)}})
                     : beforeAll \in {History_trigger(est.histories["history"]._evtHandlers,
                                                      "route:before", "history",
                                                      before.evtRoute, old)}})
                     : before \in {History_trigger(est.router._evtHandlers, "route:before",
                                                   "router", evtRoute, old)}})
          : extracted \in {Router__extractParameters(Router__routeToRegExp(HandlerOf(name).route),
                                                     fragment)}})

RECURSIVE RunCallbacks(_, _, _, _, _)
\* the callbacks a load of Router.history has called, with the message of
\* the load: what a callback throws ends the load
RunCallbacks(est, loaded, message, k, trace) ==
    IF loaded.err # "none" \/ k > Len(loaded.calls)
    THEN [st |-> est, ret |-> loaded.ret, err |-> loaded.err, calls |-> loaded.calls,
          trace |-> trace]
    ELSE Only({IF done.err # "none"
               THEN [st |-> done.st, ret |-> Undefined, err |-> done.err,
                     calls |-> Slice(loaded.calls, 1, k), trace |-> trace \o done.trace]
               ELSE RunCallbacks(done.st, loaded, message, k + 1, trace \o done.trace)
               : done \in {RouteCallback(est, loaded.calls[k].callback,
                                         loaded.calls[k].fragment, message)}})

\* a call on Router.history together with the callbacks it called
Router_load(loaded, message) == RunCallbacks(loaded.st, loaded, message, 1, <<>>)

\* addHandler of the Router: the route of the handler object is compiled and
\* registered on Router.history with the callback for it
Router_addHandler(est, name) ==
    History_addHandler(est, "history", Router__routeToRegExp(HandlerOf(name).route), name)

RECURSIVE BindFrom(_, _, _)
\* the loop of _bindHandlers, from the last entry of the map to the first
BindFrom(est, routes, i) ==
    IF i < 1 THEN est ELSE BindFrom(Router_addHandler(est, routes[i]).st, routes, i - 1)

\* _bindHandlers
Router__bindHandlers(est) ==
    IF "map" \notin DOMAIN est.router._opts THEN est
    ELSE BindFrom(est, est.router._opts.map, Len(est.router._opts.map))

\* new Router(options)
Router_constructor(est, options) ==
    Returned(Router__bindHandlers([est EXCEPT !.router =
                                       [NewRouter EXCEPT !._opts = options]]),
             Undefined, <<>>)

\* navigate of the Router: a proxy to Router.history.navigate, which passes
\* the message on to the callback
Router_navigate(est, fragment, message, options) ==
    Router_load(History_navigate(est, "history", fragment, options), message)

\* Router.history.start(options), and a change event delivered to the window
Router_start(est, options) == Router_load(History_start(est, "history", options), Undefined)

Router_dispatchEvent(est, type) == Router_load(History_dispatchEvent(est, type), Undefined)

(***************************************************************************)
(* The state machine: the Router's static fields, the browser side, and    *)
(* a record of the last call the application made (what it was, what it    *)
(* found, what it returned or threw, and the handler calls it made).       *)
(***************************************************************************)
VARIABLES _options, _loadedPath, _handlers, listeners, location, last,
          _started, histories, router

vars == <<_options, _loadedPath, _handlers, listeners, location, last,
         _started, histories, router>>

\* the bound on the size of the handler table
MaxHandlers == 2

\* route strings the application registers
UsePaths == {<<"a">>, <<"a", "/", ":", "i", "d">>}

\* callbacks it registers routes with, and as default handlers
UseCallbacks == {"h1", "halt"}

DefaultCallbacks == {"h2"}

\* groups it mounts, and the prefixes it mounts them under
Groups ==
    {RouteGroup(<<GroupHandler(Str(<<"a">>), Fn("h1")),
                  GroupHandler(Str(<<"b">>), Fn("h2"))>>),
     RouteGroup(<<GroupHandler(Fn("h2"), Undefined)>>)}

GroupPrefixes == {Undefined, Str(<<"a">>)}

\* paths it navigates to
NavPaths == {<<"a">>, <<"/", "a", "/">>, <<"a", "/", "b">>}

\* options it starts the router with
ListenOptions ==
    {<<>>,
     [silent |-> TRUE],
     [mode |-> "history"],
     [mode |-> "history", silent |-> TRUE],
     [mode |-> "pushState"]}

\* where the browser is when the page is loaded
InitLocations ==
    {[pathname |-> <<"/">>, search |-> <<>>, hash |-> Undefined],
     [pathname |-> <<"/", "a">>, search |-> <<>>, hash |-> Str(<<"a">>)]}

State ==
    [_options |-> _options, _loadedPath |-> _loadedPath, _handlers |-> _handlers,
     listeners |-> listeners, location |-> location]

\* the static fields before any call: _options and _loadedPath are declared
\* without a value, _handlers is []
Init ==
    /\ _options = Undefined
    /\ _loadedPath = Undefined
    /\ _handlers = <<>>
    /\ listeners = {}
    /\ location \in InitLocations
    /\ _started = FALSE
    /\ histories = [h \in {"history", "other"} |-> NewHistory]
    /\ router = NewRouter
    /\ last = [op |-> "none", args |-> <<>>, ret |-> Undefined, err |-> "none",
               calls |-> <<>>,
               before |-> [_options |-> Undefined, _loadedPath |-> Undefined, size |-> 0]]

\* the static fields and the browser side after a call
Commit(st) ==
    /\ _options' = st._options
    /\ _loadedPath' = st._loadedPath
    /\ _handlers' = st._handlers
    /\ listeners' = st.listeners
    /\ location' = st.location
    /\ UNCHANGED <<_started, histories, router>>

\* the record of a call: its arguments, its outcome, and the options, the
\* loaded path and the size of the table it found
Called(op, args, r) ==
    [op |-> op, args |-> args, ret |-> r.ret, err |-> r.err, calls |-> r.calls,
     before |-> [_options |-> _options, _loadedPath |-> _loadedPath,
                 size |-> Len(_handlers)]]

Listen ==
    \E options \in ListenOptions :
        \E r \in {listen(State, options)} :
            /\ last' = Called("listen", <<options>>, r)
            /\ Commit(r.st)

Stop ==
    \E r \in {stop(State)} :
        /\ last' = Called("stop", <<>>, r)
        /\ Commit(r.st)

UsePath ==
    \E path \in UsePaths, activate \in UseCallbacks :
        \E r \in {use(State, Str(path), Fn(activate))} :
            /\ Len(_handlers) < MaxHandlers
            /\ last' = Called("use", <<Str(path), Fn(activate)>>, r)
            /\ Commit(r.st)

UseDefault ==
    \E activate \in DefaultCallbacks :
        \E r \in {use(State, Fn(activate), Undefined)} :
            /\ Len(_handlers) < MaxHandlers
            /\ last' = Called("use", <<Fn(activate)>>, r)
            /\ Commit(r.st)

UseGroup ==
    \E group \in Groups, prefix \in GroupPrefixes :
        \E r \in {IF prefix.kind = "undefined" THEN use(State, group, Undefined)
                  ELSE use(State, prefix, group)} :
            /\ Len(group._handlers) <= MaxHandlers
            /\ last' = Called("use", IF prefix.kind = "undefined" THEN <<group>>
                                     ELSE <<prefix, group>>, r)
            /\ Commit(r.st)

Navigate ==
    \E path \in NavPaths :
        \E r \in {navigate(State, path)} :
            /\ last' = Called("navigate", <<path>>, r)
            /\ Commit(r.st)

Next ==
    \/ Listen
    \/ Stop
    \/ UsePath
    \/ UseDefault
    \/ UseGroup
    \/ Navigate

Spec == Init /\ [][Next]_vars

(***************************************************************************)
(* The Router in the browser: started with a root, with the user changing  *)
(* the location (editing the fragment, going back in the history) and the  *)
(* browser delivering the change events.                                   *)
(***************************************************************************)

\* options the application starts the router with
BrowserOptions ==
    {<<>>,
     [mode |-> "history"],
     [mode |-> "history", root |-> <<"/", "r", "/">>]}

\* fragments the user puts in the address bar
ChangeHashes == {<<"/", "a", "/">>, <<"a", "/", "b">>}

\* paths of the history entries the user goes back to
ChangePaths == {<<"/", "a">>, <<"/", "r", "/", "a">>}

ListenIn ==
    \E options \in BrowserOptions :
        \E r \in {listen(State, options)} :
            /\ last' = Called("listen", <<options>>, r)
            /\ Commit(r.st)

HashChange ==
    \E hash \in ChangeHashes :
        \E r \in {dispatchEvent([State EXCEPT !.location = setHash(@, <<"#">> \o hash)],
                                "hashchange")} :
            /\ last' = Called("hashchange", <<hash>>, r)
            /\ Commit(r.st)

PopState ==
    \E path \in ChangePaths :
        \E r \in {dispatchEvent([State EXCEPT !.location = pushState(@, path)],
                                "popstate")} :
            /\ last' = Called("popstate", <<path>>, r)
            /\ Commit(r.st)

NextBrowser ==
    \/ ListenIn
    \/ Stop
    \/ UsePath
    \/ Navigate
    \/ HashChange
    \/ PopState

SpecBrowser == Init /\ [][NextBrowser]_vars

(***************************************************************************)
(* The Router with an application's routes: an empty route, a literal      *)
(* route, a route with a parameter and a route with an optional parameter, *)
(* each with a callback of its own, and the fragments it navigates to.     *)
(***************************************************************************)

\* the bound on the number of routes registered
MaxRoutes == 3

Companies == <<"c", "o", "m", "p", "a", "n", "i", "e", "s">>

Archive == <<"a", "r", "c", "h", "i", "v", "e">>

AppRoutes ==
    {[path |-> <<>>, activate |-> "h0"],
     [path |-> <<"l", "o", "g", "i", "n">>, activate |-> "h1"],
     [path |-> Companies \o <<"/", ":", "i", "d">>, activate |-> "h2"],
     [path |-> Archive \o <<"/", ":", "i", "d", "?">>, activate |-> "h3"]}

AppFragments ==
    {<<>>,
     <<"l", "o", "g", "i", "n">>,
     Companies,
     Companies \o <<"/", "7">>,
     Companies \o <<"/", "a", "b">>,
     Companies \o <<"/", "7", "/", "1">>,
     Archive,
     Archive \o <<"/", "5">>,
     <<"/">> \o Archive \o <<"/">>}

UseRoute ==
    \E route \in AppRoutes :
        \E r \in {use(State, Str(route.path), Fn(route.activate))} :
            /\ Len(_handlers) < MaxRoutes
            /\ \A i \in 1..Len(_handlers) : _handlers[i].activate # route.activate
            /\ last' = Called("use", <<Str(route.path), Fn(route.activate)>>, r)
            /\ Commit(r.st)

NavigateTo ==
    \E path \in AppFragments :
        \E r \in {navigate(State, path)} :
            /\ last' = Called("navigate", <<path>>, r)
            /\ Commit(r.st)

NextRoutes ==
    \/ UseRoute
    \/ ListenIn
    \/ NavigateTo

SpecRoutes == Init /\ [][NextRoutes]_vars

(***************************************************************************)
(* The Router with literal routes and a default handler, started with      *)
(* options of every shape, and navigated to fragments that differ from the *)
(* routes in case and in slashes, that carry a query string, and that      *)
(* carry a malformed percent escape.                                       *)
(***************************************************************************)

\* route strings without parameter constructs
LiteralRoutes ==
    {<<>>,
     <<"a">>,
     <<"A">>,
     <<"/", "a", "/">>,
     <<"/", "a", "/", "/">>,
     <<"a", "/", "b">>}

\* the route with a parameter that is registered next to them
ParamRoutes == {<<"b", "/", ":", "i", "d">>}

FragmentPaths ==
    {<<>>,
     <<"a">>,
     <<"A">>,
     <<"/", "a", "/">>,
     <<"/", "a", "/", "/">>,
     <<"a", "/">>,
     <<"a", "/", "b">>,
     <<"a", "b">>,
     <<"a", "?", "x">>,
     <<"a", "?", "x", "=", "1", "&", "x", "=", "5">>,
     <<"a", "?", "x", "=", "%">>,
     <<"b", "/", "%">>}

\* options with a missing key, with every key, and with a key the Router
\* does not know
OptionsGiven ==
    {<<>>,
     [silent |-> TRUE, base |-> <<"/", "r">>],
     [mode |-> "history", root |-> <<"/">>, silent |-> FALSE, hashbang |-> TRUE]}

UseLiteral ==
    \E path \in LiteralRoutes \cup ParamRoutes :
        \E r \in {use(State, Str(path), Fn("h1"))} :
            /\ \A i \in 1..Len(_handlers) : _handlers[i].activate # "h1"
            /\ last' = Called("use", <<Str(path), Fn("h1")>>, r)
            /\ Commit(r.st)

UseCatchAll ==
    \E r \in {use(State, Fn("h2"), Undefined)} :
        /\ \A i \in 1..Len(_handlers) : _handlers[i].activate # "h2"
        /\ last' = Called("use", <<Fn("h2")>>, r)
        /\ Commit(r.st)

ListenWith ==
    \E options \in OptionsGiven :
        \E r \in {listen(State, options)} :
            /\ last' = Called("listen", <<options>>, r)
            /\ Commit(r.st)

NavigateFragment ==
    \E path \in FragmentPaths :
        \E r \in {navigate(State, path)} :
            /\ last' = Called("navigate", <<path>>, r)
            /\ Commit(r.st)

NextFragments ==
    \/ UseLiteral
    \/ UseCatchAll
    \/ ListenWith
    \/ NavigateFragment

SpecFragments == Init /\ [][NextFragments]_vars

(***************************************************************************)
(* easy-router: two History instances in one page.  The application adds   *)
(* handlers, starts and stops the instances and navigates; the user        *)
(* changes the address and the browser delivers the change events.         *)
(***************************************************************************)

\* options the application starts a History with
StartOptions ==
    {<<>>,
     [pushState |-> TRUE, root |-> <<"r">>],
     [hashChange |-> FALSE]}

\* fragments it navigates to, and the options it passes
HistoryFragments == {<<>>, <<"/", "a">>, <<"a", "#", "x">>}

NavigateOptions == {<<>>, [trigger |-> FALSE], [replace |-> TRUE]}

\* the route it registers, as a regular expression, and its callback
HistoryRoutes == {<<"a">>}

\* fragments the user puts in the address bar
UserHashes == {<<"b">>}

HistoryState == [_started |-> _started, histories |-> histories, location |-> location]

\* the flag, the instances and the location after a call on a History
HistoryCommit(est) ==
    /\ _started' = est._started
    /\ histories' = est.histories
    /\ location' = est.location
    /\ UNCHANGED <<_options, _loadedPath, _handlers, listeners, router>>

\* the record of a call on an instance, with the flag and the instance's
\* fragment as the call found them
HistoryCalled(op, h, args, r) ==
    [op |-> op, self |-> h, args |-> args, ret |-> r.ret, err |-> r.err, calls |-> r.calls,
     before |-> [_started |-> _started,
                 _fragment |-> IF h \in DOMAIN histories THEN histories[h]._fragment
                               ELSE Undefined]]

HistoryStart ==
    \E options \in StartOptions :
        \E r \in {History_start(HistoryState, "history", options)} :
            /\ last' = HistoryCalled("start", "history", <<options>>, r)
            /\ HistoryCommit(r.st)

\* the second instance is started with the defaults
OtherStart ==
    \E r \in {History_start(HistoryState, "other", <<>>)} :
        /\ last' = HistoryCalled("start", "other", <<<<>>>>, r)
        /\ HistoryCommit(r.st)

HistoryStop ==
    \E h \in {"history", "other"} :
        \E r \in {History_stop(HistoryState, h)} :
            /\ last' = HistoryCalled("stop", h, <<>>, r)
            /\ HistoryCommit(r.st)

HistoryAddHandler ==
    \E route \in HistoryRoutes :
        \E r \in {History_addHandler(HistoryState, "history", RegExpOf(route), "h1")} :
            /\ histories["history"]._handlers = <<>>
            /\ last' = HistoryCalled("addHandler", "history",
                                     <<RegExpOf(route), Fn("h1")>>, r)
            /\ HistoryCommit(r.st)

HistoryNavigate ==
    \E fragment \in HistoryFragments, options \in NavigateOptions :
        \E r \in {History_navigate(HistoryState, "history", fragment, options)} :
            /\ last' = HistoryCalled("navigate", "history", <<fragment, options>>, r)
            /\ HistoryCommit(r.st)

UserChangesHash ==
    \E hash \in UserHashes :
        \E r \in {History_dispatchEvent(
                      [HistoryState EXCEPT !.location = setHash(@, <<"#">> \o hash)],
                      "hashchange")} :
            /\ last' = HistoryCalled("hashchange", "window", <<hash>>, r)
            /\ HistoryCommit(r.st)

NextHistory ==
    \/ HistoryStart
    \/ OtherStart
    \/ HistoryStop
    \/ HistoryAddHandler
    \/ HistoryNavigate
    \/ UserChangesHash

SpecHistory == Init /\ [][NextHistory]_vars

(***************************************************************************)
(* The Router with handlers that call the Router while a load is in        *)
(* progress: one navigates on, one registers a route, one stops the        *)
(* router.                                                                 *)
(***************************************************************************)

\* the routes the application registers, each with its callback
ChainRoutes ==
    {<<<<"a">>, "toB">>, <<<<"a">>, "addA">>, <<<<"a">>, "quit">>,
     <<<<"a">>, "h1">>, <<<<"b">>, "h2">>}

\* the paths it navigates to
ChainPaths == {<<"a">>, <<"b">>}

\* the size the table may reach by the calls of use made inside handlers
MaxChainTable == 4

UseChain ==
    \E route \in ChainRoutes :
        \E r \in {use(State, Str(route[1]), Fn(route[2]))} :
            /\ \A i \in 1..Len(_handlers) : _handlers[i].activate # route[2]
            /\ Len(_handlers) < MaxChainTable
            /\ last' = Called("use", <<Str(route[1]), Fn(route[2])>>, r)
            /\ Commit(r.st)

ListenChain ==
    \E r \in {listen(State, <<>>)} :
        /\ Len(r.st._handlers) <= MaxChainTable
        /\ last' = Called("listen", <<<<>>>>, r)
        /\ Commit(r.st)

NavigateChain ==
    \E path \in ChainPaths :
        \E r \in {navigate(State, path)} :
            /\ Len(r.st._handlers) <= MaxChainTable
            /\ last' = Called("navigate", <<path>>, r)
            /\ Commit(r.st)

NextChain ==
    \/ UseChain
    \/ ListenChain
    \/ NavigateChain

SpecChain == Init /\ [][NextChain]_vars

(***************************************************************************)
(* The Router with handlers that return values other than false, that      *)
(* assign to the request they receive, and that read the Router's current  *)
(* path while the chain runs.                                              *)
(***************************************************************************)

\* the callbacks the application registers on the route 'a': those that
\* return a value, and those that assign to their request or read the router
ValueCallbacks == {"null", "zero", "empty", "halt"}

RequestCallbacks == {"edit", "look", "h1"}

\* the paths it navigates to
CallbackPaths == {<<"a">>, <<"/", "a", "/">>, <<"b">>}

\* the options it starts the router with
CallbackOptions == {<<>>, [mode |-> "history"]}

UseCallback ==
    \E activate \in ValueCallbacks :
        \E r \in {use(State, Str(<<"a">>), Fn(activate))} :
            /\ \A i \in 1..Len(_handlers) : _handlers[i].activate # activate
            /\ last' = Called("use", <<Str(<<"a">>), Fn(activate)>>, r)
            /\ Commit(r.st)

UseRequestCallback ==
    \E activate \in RequestCallbacks :
        \E r \in {use(State, Str(<<"a">>), Fn(activate))} :
            /\ \A i \in 1..Len(_handlers) : _handlers[i].activate # activate
            /\ last' = Called("use", <<Str(<<"a">>), Fn(activate)>>, r)
            /\ Commit(r.st)

ListenCallbacks ==
    \E options \in CallbackOptions :
        \E r \in {listen(State, options)} :
            /\ last' = Called("listen", <<options>>, r)
            /\ Commit(r.st)

NavigateCallbacks ==
    \E path \in CallbackPaths :
        \E r \in {navigate(State, path)} :
            /\ last' = Called("navigate", <<path>>, r)
            /\ Commit(r.st)

NextCallbacks ==
    \/ UseCallback
    \/ ListenCallbacks
    \/ NavigateCallbacks

SpecCallbacks == Init /\ [][NextCallbacks]_vars

NextRequests ==
    \/ UseRequestCallback
    \/ ListenCallbacks
    \/ NavigateCallbacks

SpecRequests == Init /\ [][NextRequests]_vars

(***************************************************************************)
(* easy-router: a Router on Router.history.  The application builds the    *)
(* router from a route map, adds one more handler, subscribes and          *)
(* unsubscribes listeners of route:before and route:after on the router    *)
(* and on the history, starts the history and navigates; the user changes  *)
(* the address.                                                            *)
(***************************************************************************)

\* the options the router is built with
RouterOptions ==
    {[map |-> <<"home", "user">>],
     [map |-> <<"user", "home">>],
     [root |-> <<"/">>]}

\* the handler it adds after construction
LateHandlers == {"late"}

\* the listeners it subscribes: the object, the event and the callback
RouterListeners ==
    {<<"router", "route:before", "veto">>,
     <<"router", "route:before", "note">>,
     <<"history", "route:before", "note">>,
     <<"router", "route:after", "note">>,
     <<"history", "route:after", "note">>}

\* the bound on the number of listeners subscribed at a time
MaxListeners == 2

\* fragments it navigates to, and fragments the user puts in the address bar
RouterFragments == {<<"a">>, <<"b">>, <<"a", "/", "b">>}

RouterHashes == {<<"a">>, <<"b">>}

RouterState ==
    [_started |-> _started, histories |-> histories, location |-> location,
     router |-> router]

\* the instances, the location and the router after a call
RouterCommit(est) ==
    /\ _started' = est._started
    /\ histories' = est.histories
    /\ location' = est.location
    /\ router' = est.router
    /\ UNCHANGED <<_options, _loadedPath, _handlers, listeners>>

\* the record of a call: its outcome, the callbacks Router.history called,
\* what those callbacks did, and the old-route record and the table the call found
RouterCalled(op, args, r) ==
    [op |-> op, args |-> args, ret |-> r.ret, err |-> r.err, calls |-> r.calls,
     trace |-> r.trace,
     before |-> [_old |-> router._old, _handlers |-> histories["history"]._handlers]]

\* a call that calls no callback of Router.history
Plain(r) == [st |-> r.st, ret |-> r.ret, err |-> r.err, calls |-> r.calls, trace |-> <<>>]

\* the event handlers of the object a listener is subscribed on
EvtHandlersOf(est, self) ==
    IF self = "router" THEN est.router._evtHandlers
    ELSE est.histories["history"]._evtHandlers

RouterNew ==
    \E options \in RouterOptions :
        \E r \in {Router_constructor(RouterState, options)} :
            /\ "kind" \in DOMAIN router._opts
            /\ last' = RouterCalled("new", <<options>>, Plain(r))
            /\ RouterCommit(r.st)

RouterAddHandler ==
    \E name \in LateHandlers :
        \E r \in {Router_addHandler(RouterState, name)} :
            /\ "kind" \notin DOMAIN router._opts
            /\ \A i \in 1..Len(histories["history"]._handlers) :
                   histories["history"]._handlers[i].callback # name
            /\ last' = RouterCalled("addHandler", <<name>>, Plain(r))
            /\ RouterCommit(r.st)

RouterOn ==
    \E listener \in RouterListeners :
        /\ "kind" \notin DOMAIN router._opts
        /\ Len(router._evtHandlers) + Len(histories["history"]._evtHandlers) < MaxListeners
        /\ \A i \in 1..Len(EvtHandlersOf(RouterState, listener[1])) :
               EvtHandlersOf(RouterState, listener[1])[i]
                   # [evt |-> listener[2], callback |-> listener[3]]
        /\ \E est \in {IF listener[1] = "router"
                       THEN [RouterState EXCEPT !.router._evtHandlers =
                                History_on(@, listener[2], listener[3])]
                       ELSE [RouterState EXCEPT !.histories["history"]._evtHandlers =
                                History_on(@, listener[2], listener[3])]} :
               /\ last' = RouterCalled("on", listener, Plain(Returned(est, Undefined, <<>>)))
               /\ RouterCommit(est)

RouterOff ==
    \E listener \in RouterListeners :
        /\ \E i \in 1..Len(EvtHandlersOf(RouterState, listener[1])) :
               EvtHandlersOf(RouterState, listener[1])[i]
                   = [evt |-> listener[2], callback |-> listener[3]]
        /\ \E est \in {IF listener[1] = "router"
                       THEN [RouterState EXCEPT !.router._evtHandlers =
                                History_off(@, listener[2], listener[3])]
                       ELSE [RouterState EXCEPT !.histories["history"]._evtHandlers =
                                History_off(@, listener[2], listener[3])]} :
               /\ last' = RouterCalled("off", listener, Plain(Returned(est, Undefined, <<>>)))
               /\ RouterCommit(est)

RouterStart ==
    \E r \in {Router_start(RouterState, <<>>)} :
        /\ last' = RouterCalled("start", <<<<>>>>, r)
        /\ RouterCommit(r.st)

RouterNavigate ==
    \E fragment \in RouterFragments :
        \E r \in {Router_navigate(RouterState, fragment, Undefined, <<>>)} :
            /\ "kind" \notin DOMAIN router._opts
            /\ last' = RouterCalled("navigate", <<fragment>>, r)
            /\ RouterCommit(r.st)

RouterUserChangesHash ==
    \E hash \in RouterHashes :
        \E r \in {Router_dispatchEvent(
                      [RouterState EXCEPT !.location = setHash(@, <<"#">> \o hash)],
                      "hashchange")} :
            /\ last' = RouterCalled("hashchange", <<hash>>, r)
            /\ RouterCommit(r.st)

NextRouter ==
    \/ RouterNew
    \/ RouterAddHandler
    \/ RouterOn
    \/ RouterOff
    \/ RouterStart
    \/ RouterNavigate
    \/ RouterUserChangesHash

SpecRouter == Init /\ [][NextRouter]_vars

(***************************************************************************)
(* Vocabulary of the properties                                            *)
(***************************************************************************)

\* the router has no options: never started, or stopped
Idle == ~HasOptions(State)

\* the router was started with a valid mode and has not been stopped
Listening == HasOptions(State) /\ _options.mode \in {"history", "hash"}

\* the callbacks of the entries of a table whose expression matches the path
\* portion of a fragment, in table order
MatchingCallbacks(handlers, fragment) ==
    LET matching == SelectSeq(handlers,
                              LAMBDA h : Test(h.pathExp, parsePath(fragment).path))
    IN  [i \in 1..Len(matching) |-> matching[i].activate]

\* a chain of callbacks as far as it runs: up to and including the first one
\* that returns false
ChainOf(ids) ==
    IF \E i \in 1..Len(ids) : CallbackReturn(ids[i]) = Bool(FALSE)
    THEN SubSeq(ids, 1, CHOOSE i \in 1..Len(ids) :
                            /\ CallbackReturn(ids[i]) = Bool(FALSE)
                            /\ \A j \in 1..(i - 1) : CallbackReturn(ids[j]) # Bool(FALSE))
    ELSE ids

\* the callbacks a call invoked, in order
Activates(calls) == [i \in 1..Len(calls) |-> calls[i].activate]

\* the fragment a navigate call loads
NavigatedPath(call) == clearSlashes(call.args[1])

RECURSIVE RegisterEach(_, _, _, _)
\* use(prefix + "/" + path, activate) for each member of a group, in order
RegisterEach(st, prefix, members, i) ==
    IF i > Len(members) THEN st
    ELSE RegisterEach(use(st, Str(prefix \o <<"/">> \o members[i].path.chars),
                          members[i].activate).st,
                      prefix, members, i + 1)

\* a string without the slashes it begins with and the slashes it ends with
StripSlashes(s) == Slice(s, LeadingSlashes(s) + 1, Len(s) - TrailingSlashes(s))

\* the browser has delivered a change event
ChangeEvents == {"hashchange", "popstate"}

\* the change event the router subscribes to in its mode
EventOfMode(mode) == IF mode = "history" THEN "popstate" ELSE "hashchange"

\* the table has an entry with the callback
Registered(id) == \E i \in 1..Len(_handlers) : _handlers[i].activate = id

\* the requests a call made to the callback
RequestsTo(call, id) ==
    {call.calls[j].request : j \in {k \in 1..Len(call.calls) : call.calls[k].activate = id}}

\* fragment is prefix, a slash, and one non-empty segment
IsSegmentUnder(prefix, fragment) ==
    /\ Len(fragment) > Len(prefix) + 1
    /\ Slice(fragment, 1, Len(prefix) + 1) = prefix \o <<"/">>
    /\ \A k \in (Len(prefix) + 2)..Len(fragment) : fragment[k] # "/"

\* that segment
SegmentUnder(prefix, fragment) == Slice(fragment, Len(prefix) + 2, Len(fragment))

C2_GroupAsSeparateUses ==
    [][(/\ last'.op = "use"
        /\ Len(last'.args) = 2
        /\ last'.args[2].kind = "RouteGroup"
        /\ \A i \in 1..Len(last'.args[2]._handlers) :
               last'.args[2]._handlers[i].path.kind = "string")
       => _handlers' = RegisterEach(State, clearSlashes(last'.args[1].chars),
                                    last'.args[2]._handlers, 1)._handlers]_vars

(***************************************************************************)
(* C3: when two or more handlers match the fragment and the first returns  *)
(* false, that handler alone is invoked and the load returns true.         *)
(***************************************************************************)
C3_HaltedChainReportsTrue ==
    [][(/\ last'.op = "navigate"
        /\ last'.err = "none"
        /\ Len(MatchingCallbacks(_handlers, NavigatedPath(last'))) >= 2
        /\ CallbackReturn(MatchingCallbacks(_handlers, NavigatedPath(last'))[1])
               = Bool(FALSE))
       => (/\ Activates(last'.calls)
                  = <<MatchingCallbacks(_handlers, NavigatedPath(last'))[1]>>
           /\ last'.ret = Bool(TRUE))]_vars

(***************************************************************************)
(* C4: a load (by navigate, or the initial load of listen) invokes every   *)
(* handler of the table whose expression matches the path of the fragment, *)
(* in table order, until one of them returns false.                        *)
(***************************************************************************)
C4_EveryMatchInOrder ==
    [][/\ (last'.op = "navigate" /\ last'.err = "none")
           => Activates(last'.calls) =
                  ChainOf(MatchingCallbacks(_handlers, NavigatedPath(last')))
       /\ (last'.op = "listen" /\ last'.err = "none" /\ ~_options'.silent)
           => Activates(last'.calls) =
                  ChainOf(MatchingCallbacks(_handlers, _loadedPath'.chars))]_vars

\* one navigate has invoked two handlers
C4_Witness ==
    /\ last.op = "navigate"
    /\ Len(last.calls) >= 2
    /\ last.calls[1].activate # last.calls[2].activate

(***************************************************************************)
(* C5: listen() on a router that is listening throws AlreadyListening and  *)
(* changes neither the options, the loaded path, the table, the listeners  *)
(* nor the location.                                                       *)
(***************************************************************************)
C5_SecondListenFails ==
    [][(last'.op = "listen" /\ Listening)
       => (/\ last'.err = "AlreadyListening"
           /\ last'.calls = <<>>
           /\ UNCHANGED <<_options, _loadedPath, _handlers, listeners, location>>)]_vars

\* a listen with other options than the running session's has been refused
C5_Witness ==
    /\ last.op = "listen"
    /\ last.err = "AlreadyListening"
    /\ Listening
    /\ listeners # {}
    /\ _options # MergeOptions(last.args[1])

(***************************************************************************)
(* C6: listen() on an idle router with a mode other than "hash" and        *)
(* "history" throws InvalidMode, adds no listener and invokes no handler.  *)
(***************************************************************************)
C6_InvalidModeFails ==
    [][(/\ last'.op = "listen"
        /\ Idle
        /\ MergeOptions(last'.args[1]).mode \notin {"hash", "history"})
       => (/\ last'.err = "InvalidMode"
           /\ listeners' = listeners
           /\ last'.calls = <<>>)]_vars

\* an invalid mode was refused while a default handler, which matches every
\* fragment, was registered
C6_Witness ==
    /\ last.op = "listen"
    /\ last.err = "InvalidMode"
    /\ \E i \in 1..Len(_handlers) : ~_handlers[i].pathExp.anchored

(***************************************************************************)
(* C7: after listen() has thrown InvalidMode the router is still idle: the *)
(* next listen() does not throw AlreadyListening and the next navigate()   *)
(* throws NotListening.                                                    *)
(***************************************************************************)
C7_FailedListenLeavesIdle ==
    [][(last.op = "listen" /\ last.err = "InvalidMode")
       => (/\ last'.op = "listen" => last'.err # "AlreadyListening"
           /\ last'.op = "navigate" => last'.err = "NotListening")]_vars

(***************************************************************************)
(* C8: navigate() on an idle router (never started, or stopped) throws     *)
(* NotListening; it writes no location, invokes no handler and leaves the  *)
(* loaded path as it was.                                                  *)
(***************************************************************************)
C8_NavigateIdleFails ==
    [][(last'.op = "navigate" /\ Idle)
       => (/\ last'.err = "NotListening"
           /\ last'.calls = <<>>
           /\ UNCHANGED <<_options, _loadedPath, _handlers, listeners, location>>)]_vars

\* a navigate was refused although a registered handler matches its path
C8_Witness ==
    /\ last.op = "navigate"
    /\ last.err = "NotListening"
    /\ MatchingCallbacks(_handlers, NavigatedPath(last)) # <<>>

(***************************************************************************)
(* C9: when stop() has returned the table is empty, the loaded path is     *)
(* null and the router is idle; a listen() that follows invokes no         *)
(* handler.                                                                *)
(***************************************************************************)
C9_StopResets ==
    /\ []((last.op = "stop" /\ last.err = "none")
          => (_handlers = <<>> /\ _loadedPath = Null /\ _options = Null))
    /\ [][(last.op = "stop" /\ last.err = "none" /\ last'.op = "listen")
          => last'.calls = <<>>]_vars

\* stop has returned on a router that had handlers and a loaded path
C9_Witness ==
    /\ last.op = "stop"
    /\ last.err = "none"
    /\ last.before.size > 0
    /\ last.before._loadedPath.kind = "string"

(***************************************************************************)
(* C10: once stop() has returned, listen() does not throw AlreadyListening *)
(* and the options it stores are the supplied ones over the defaults.      *)
(***************************************************************************)
C10_ListenAfterStop ==
    [][(/\ last'.op = "listen"
        /\ (last.op = "stop" /\ last.err = "none") \/ _options = Null)
       => (/\ last'.err # "AlreadyListening"
           /\ _options' = MergeOptions(last'.args[1]))]_vars

\* a session in history mode was started after a session of another mode was
\* stopped (the empty fragment is what stop writes outside history mode)
C10_Witness ==
    /\ last.op = "listen"
    /\ last.err = "none"
    /\ last.before._options = Null
    /\ _options.mode = "history"
    /\ location.hash = Str(<<>>)

C13_NoMatchIsFalse ==
    /\ (last.op = "navigate" /\ last.before._options.kind = "object"
            /\ MatchingCallbacks(_handlers, NavigatedPath(last)) = <<>>)
       => (last.err = "none" /\ last.ret = Bool(FALSE) /\ last.calls = <<>>)
    /\ (last.op \in {"navigate", "listen"} /\ last.ret = Bool(TRUE))
       => last.calls # <<>>

\* a navigate has returned false although handlers are registered: none of
\* them matches the path
C13_Witness ==
    /\ last.op = "navigate"
    /\ last.err = "none"
    /\ last.ret = Bool(FALSE)
    /\ _handlers # <<>>
    /\ MatchingCallbacks(_handlers, NavigatedPath(last)) = <<>>

(***************************************************************************)
(* C14: listen() on an idle router, when silent is unset or false, loads   *)
(* the current fragment once (the handlers matching it are invoked in      *)
(* order and it becomes the loaded path) and returns whether a handler     *)
(* matched; when silent is true it invokes no handler, returns false and   *)
(* leaves the loaded path null.                                            *)
(***************************************************************************)
C14_ListenLoadsUnlessSilent ==
    [][(last'.op = "listen" /\ last'.err = "none")
       => IF _options'.silent
          THEN /\ last'.calls = <<>>
               /\ last'.ret = Bool(FALSE)
               /\ _loadedPath' \in {Null, Undefined}
          ELSE /\ Activates(last'.calls) =
                      ChainOf(MatchingCallbacks(_handlers, getCurrent(State').path))
               /\ _loadedPath' = Str(getCurrent(State').path)
               /\ last'.ret =
                      Bool(MatchingCallbacks(_handlers, getCurrent(State').path) # <<>>)]_vars

(***************************************************************************)
(* C11: every navigate(p) on a listening router writes the location, also  *)
(* when p is the loaded path: in hash mode the fragment becomes p as       *)
(* clearSlashes leaves it, in history mode the path becomes the root       *)
(* followed by it; in hash mode and with the root "/" getCurrent() then    *)
(* returns p without its leading and trailing slashes.                     *)
(***************************************************************************)
C11_NavigateWritesLocation ==
    [][(last'.op = "navigate" /\ last'.err = "none" /\ Listening)
       => IF _options.mode = "hash"
          THEN /\ location'.hash = Str(NavigatedPath(last'))
               /\ location'.pathname = location.pathname
               /\ getCurrent(State').path = StripSlashes(last'.args[1])
          ELSE /\ location'.pathname = _options.root \o NavigatedPath(last')
               /\ location'.hash = Undefined
               /\ _options.root = <<"/">>
                      => getCurrent(State').path = StripSlashes(last'.args[1])]_vars

\* a navigate to the path that was loaded already has returned on a
\* listening router
C11_Witness ==
    /\ last.op = "navigate"
    /\ last.err = "none"
    /\ Listening
    /\ last.before._loadedPath = Str(NavigatedPath(last))

(***************************************************************************)
(* C15: on a listening router a change event of the configured mode whose  *)
(* current fragment is not the loaded path loads that fragment: the        *)
(* handlers matching it are invoked in order and it becomes the loaded     *)
(* path.                                                                   *)
(***************************************************************************)
C15_ChangeEventLoads ==
    [][(/\ Listening
        /\ last'.op = EventOfMode(_options.mode)
        /\ Str(getCurrent(State').path) # _loadedPath)
       => (/\ Activates(last'.calls) =
                  ChainOf(MatchingCallbacks(_handlers, getCurrent(State').path))
           /\ _loadedPath' = Str(getCurrent(State').path))]_vars

(***************************************************************************)
(* C16: an idle router has no platform listener subscribed (stop() has     *)
(* removed the one listen() added), and a popstate or hashchange event     *)
(* delivered while it is idle runs nothing of the router: no handler is    *)
(* invoked and the loaded path and the table stay as they are.             *)
(***************************************************************************)
C16_IdleIgnoresEvents ==
    /\ [](Idle => listeners = {})
    /\ []((last.op = "stop" /\ last.err = "none") => listeners = {})
    /\ [][(last'.op \in ChangeEvents /\ Idle)
          => (/\ last'.err = "none"
              /\ last'.calls = <<>>
              /\ _loadedPath' = _loadedPath
              /\ _handlers' = _handlers)]_vars

\* an event was delivered to a router that had been stopped
C16_Witness ==
    /\ last.op \in ChangeEvents
    /\ last.before._options = Null
    /\ Idle

(***************************************************************************)
(* C17: in history mode, whatever the root, getCurrent() after navigate(p) *)
(* returns p without its leading and trailing slashes.                     *)
(***************************************************************************)
C17_RootRoundTrip ==
    [][(/\ last'.op = "navigate"
        /\ last'.err = "none"
        /\ Listening
        /\ _options.mode = "history")
       => getCurrent(State') = [err |-> "none", path |-> StripSlashes(last'.args[1])]]_vars

(***************************************************************************)
(* C18: on a listening router, in both modes, the fragment getCurrent()    *)
(* returns neither begins nor ends with a slash.                           *)
(***************************************************************************)
C18_CurrentHasNoEdgeSlash ==
    Listening => getCurrent(State).path = StripSlashes(getCurrent(State).path)

\* params is the mapping of the one name to the one value
HasOnly(params, name, value) ==
    /\ DOMAIN params = {name}
    /\ params[name] = value

\* the parameter name of the routes
Id == <<"i", "d">>

(***************************************************************************)
(* C19: with the routes '' (h0), 'login' (h1) and 'companies/:id' (h2)     *)
(* registered, navigating to "companies/7" invokes h2 alone, with params   *)
(* {id: "7"}.  Wherever 'companies/:id' is registered, a fragment          *)
(* "companies/x" with one non-empty segment x invokes its callback once    *)
(* with params {id: x}, and the fragment "companies" does not invoke it.   *)
(***************************************************************************)
C19_ParameterRoute ==
    (last.op = "navigate" /\ last.err = "none")
    => /\ (/\ Activates(_handlers) = <<"h0", "h1", "h2">>
           /\ NavigatedPath(last) = Companies \o <<"/", "7">>)
          => (/\ Activates(last.calls) = <<"h2">>
              /\ HasOnly(last.calls[1].request.params, Id, <<"7">>))
       /\ (Registered("h2") /\ IsSegmentUnder(Companies, NavigatedPath(last)))
          => (/\ Cardinality({k \in 1..Len(last.calls) :
                                  last.calls[k].activate = "h2"}) = 1
              /\ \A request \in RequestsTo(last, "h2") :
                     HasOnly(request.params, Id,
                             SegmentUnder(Companies, NavigatedPath(last))))
       /\ (Registered("h2") /\ NavigatedPath(last) = Companies)
          => RequestsTo(last, "h2") = {}

\* "companies/7" was loaded with the three routes registered, and a handler ran
C19_Witness ==
    /\ last.op = "navigate"
    /\ last.err = "none"
    /\ Activates(_handlers) = <<"h0", "h1", "h2">>
    /\ NavigatedPath(last) = Companies \o <<"/", "7">>
    /\ last.calls # <<>>

(***************************************************************************)
(* C20: where 'archive/:id?' is registered, the fragment "archive" invokes *)
(* its callback with params that have no id entry, and a fragment          *)
(* "archive/x" with one non-empty segment x invokes it with params         *)
(* {id: x}.                                                                *)
(***************************************************************************)
C20_OptionalParameter ==
    (last.op = "navigate" /\ last.err = "none" /\ Registered("h3"))
    => /\ NavigatedPath(last) = Archive
          => (/\ RequestsTo(last, "h3") # {}
              /\ \A request \in RequestsTo(last, "h3") :
                     DOMAIN request.params = {})
       /\ IsSegmentUnder(Archive, NavigatedPath(last))
          => (/\ RequestsTo(last, "h3") # {}
              /\ \A request \in RequestsTo(last, "h3") :
                     HasOnly(request.params, Id,
                             SegmentUnder(Archive, NavigatedPath(last))))

\* "archive" was loaded and the callback of 'archive/:id?' ran
C20_Witness ==
    /\ last.op = "navigate"
    /\ last.err = "none"
    /\ NavigatedPath(last) = Archive
    /\ RequestsTo(last, "h3") # {}

\* a string with its capital letters replaced by the small ones
FoldCase(s) ==
    [k \in 1..Len(s) |-> CASE s[k] = "A" -> "a" [] s[k] = "B" -> "b" [] OTHER -> s[k]]

\* a route string as use registers it, without the slash it may end with
RouteCore(route) ==
    LET text == clearSlashes(route)
    IN  IF text # <<>> /\ text[Len(text)] = "/" THEN Slice(text, 1, Len(text) - 1) ELSE text

\* the table has an entry compiled from the route string, with the callback
RegisteredAs(route, id) ==
    \E i \in 1..Len(_handlers) :
        /\ _handlers[i].activate = id
        /\ _handlers[i].pathExp = stringToPathExp(clearSlashes(route))

\* the path portion of the fragment a navigate call loads
NavigatedRoute(call) == parsePath(NavigatedPath(call)).path

(***************************************************************************)
(* C21 (as stated): a registered route string without parameter constructs *)
(* matches the fragment whose path is the route, and the one with a slash  *)
(* after it, with empty params, and matches no other fragment.             *)
(***************************************************************************)
C21_LiteralMatchesItselfOnly ==
    (last.op = "navigate" /\ last.err = "none")
    => \A route \in LiteralRoutes :
           RegisteredAs(route, "h1")
           => /\ RequestsTo(last, "h1") # {}
                     <=> NavigatedRoute(last) \in
                             {RouteCore(route), RouteCore(route) \o <<"/">>}
              /\ \A request \in RequestsTo(last, "h1") : DOMAIN request.params = {}

(***************************************************************************)
(* C21 (amended): a registered route string without parameter constructs   *)
(* matches, with empty params, the fragments whose path is the route or    *)
(* the route followed by a slash, letters compared without regard to case, *)
(* and matches no other fragment.                                          *)
(***************************************************************************)
C21_LiteralMatchesIgnoringCase ==
    (last.op = "navigate" /\ last.err = "none")
    => \A route \in LiteralRoutes :
           RegisteredAs(route, "h1")
           => /\ RequestsTo(last, "h1") # {}
                     <=> FoldCase(NavigatedRoute(last)) \in
                             {FoldCase(RouteCore(route)),
                              FoldCase(RouteCore(route)) \o <<"/">>}
              /\ \A request \in RequestsTo(last, "h1") : DOMAIN request.params = {}

\* the route 'a' was registered and the fragment "A" has invoked its callback
C21_Witness ==
    /\ last.op = "navigate"
    /\ last.err = "none"
    /\ RegisteredAs(<<"a">>, "h1")
    /\ NavigatedRoute(last) = <<"A">>
    /\ RequestsTo(last, "h1") # {}

(***************************************************************************)
(* C22: for a literal route R, navigate(R) and then navigate(R + "/")      *)
(* invoke the callback of R both times or neither time, with the same      *)
(* params; and use(R + "/") adds the entry that use(R) adds.               *)
(***************************************************************************)
C22_TrailingSlashIsIgnored ==
    [][/\ (/\ last.op = "navigate" /\ last.err = "none"
           /\ last'.op = "navigate" /\ last'.err = "none"
           /\ last.args[1] \in LiteralRoutes
           /\ RegisteredAs(last.args[1], "h1")
           /\ last'.args[1] = last.args[1] \o <<"/">>)
          => {request.params : request \in RequestsTo(last', "h1")}
                 = {request.params : request \in RequestsTo(last, "h1")}
       /\ (/\ last'.op = "use"
           /\ last'.err = "none"
           /\ last'.args[1].kind = "string"
           /\ \E route \in LiteralRoutes : last'.args[1] = Str(route \o <<"/">>))
          => \E route \in LiteralRoutes :
                 /\ last'.args[1] = Str(route \o <<"/">>)
                 /\ _handlers'[Len(_handlers')].pathExp
                        = stringToPathExp(clearSlashes(route))]_vars

(***************************************************************************)
(* C24: a default handler, registered with use(callback), is invoked by    *)
(* every load that completes, whatever the fragment (the empty one         *)
(* included), once, and with empty params.                                 *)
(***************************************************************************)
C24_DefaultMatchesEverything ==
    (/\ Registered("h2")
     /\ last.err = "none"
     /\ \/ last.op = "navigate"
        \/ last.op = "listen" /\ ~_options.silent)
    => /\ Cardinality({k \in 1..Len(last.calls) : last.calls[k].activate = "h2"}) = 1
       /\ \A request \in RequestsTo(last, "h2") : DOMAIN request.params = {}

\* the empty fragment was navigated to and the default handler was invoked
C24_Witness ==
    /\ last.op = "navigate"
    /\ last.err = "none"
    /\ NavigatedPath(last) = <<>>
    /\ RequestsTo(last, "h2") # {}

\* the group a use call mounts, and the prefix it mounts it under
MountedGroup(call) == call.args[Len(call.args)]

MountPrefix(call) == IF Len(call.args) = 2 THEN call.args[1] ELSE Undefined

\* what a query mapping gives for a key: its value, or undefined
QueryValue(query, key) == IF key \in DOMAIN query THEN Str(query[key]) ELSE Undefined

(***************************************************************************)
(* C23: use of a group fills the table with one entry per member, in       *)
(* order: the default route for a member with neither a sub-path nor a     *)
(* prefix, the route compiled from the one that is present when only one   *)
(* is, and the route compiled from prefix + "/" + sub-path when both are.  *)
(***************************************************************************)
C23_GroupFlattening ==
    [][(last'.op = "use" /\ MountedGroup(last').kind = "RouteGroup")
       => LET members == MountedGroup(last')._handlers
              prefix == MountPrefix(last')
          IN  /\ Len(_handlers') = Len(members)
              /\ \A i \in 1..Len(members) :
                    LET hasSub == members[i].path.kind = "string"
                        hasParent == prefix.kind = "string"
                        sub == clearSlashes(members[i].path.chars)
                        parent == clearSlashes(prefix.chars)
                    IN  /\ _handlers'[i].activate =
                               (IF hasSub THEN members[i].activate.id
                                ELSE members[i].path.id)
                        /\ _handlers'[i].pathExp =
                               (CASE ~hasSub /\ ~hasParent -> DEF_ROUTE
                                  [] hasSub /\ ~hasParent -> stringToPathExp(sub)
                                  [] ~hasSub /\ hasParent -> stringToPathExp(parent)
                                  [] OTHER -> stringToPathExp(parent \o <<"/">> \o sub))]_vars

\* a group was mounted under a prefix: one with a member that has a sub-path,
\* and one with a member that has none
C23_Witness ==
    /\ last.op = "use"
    /\ MountedGroup(last).kind = "RouteGroup"
    /\ MountPrefix(last).kind = "string"
    /\ \/ \E i \in 1..Len(_handlers) :
              _handlers[i].pathExp = stringToPathExp(<<"a", "/", "b">>)
       \/ \E i \in 1..Len(_handlers) :
              /\ MountedGroup(last)._handlers[i].path.kind = "function"
              /\ _handlers[i].pathExp = stringToPathExp(<<"a">>)

(***************************************************************************)
(* C25: navigate and listen never end with the URIError of a percent       *)
(* escape that cannot be decoded, in the query or in a captured segment.   *)
(***************************************************************************)
C25_DecodeFailureIsRecovered ==
    last.op \in {"navigate", "listen"} => last.err # "URIError"

(***************************************************************************)
(* C26: in the query of a Request, a key without "=value" has the value    *)
(* undefined, a key given twice has its last value, and a fragment without *)
(* a query string gives an empty mapping.                                  *)
(***************************************************************************)
C26_QueryParsing ==
    \A k \in 1..Len(last.calls) :
        LET request == last.calls[k].request
        IN  /\ request.queryString = <<>> => DOMAIN request.query = {}
            /\ request.queryString = <<"?", "x">>
                   => QueryValue(request.query, <<"x">>) = Undefined
            /\ request.queryString = <<"?", "x", "=", "1", "&", "x", "=", "5">>
                   => QueryValue(request.query, <<"x">>) = Str(<<"5">>)

(***************************************************************************)
(* C27: stop leaves the address bar at the configured root, without a      *)
(* fragment, when the mode was history, and with an empty fragment when    *)
(* the mode was hash, whatever path was loaded before.                     *)
(***************************************************************************)
C27_StopResetsLocation ==
    (last.op = "stop" /\ last.err = "none")
    => IF last.before._options.mode = "history"
       THEN /\ location.pathname = last.before._options.root
            /\ location.search = <<>>
            /\ location.hash = Undefined
       ELSE location.hash = Str(<<>>)

\* the router was stopped with a path loaded: in history mode under a root
\* other than "/", and in hash mode
C27_Witness ==
    /\ last.op = "stop"
    /\ last.err = "none"
    /\ last.before._loadedPath.kind = "string"
    /\ last.before._loadedPath.chars # <<>>
    /\ \/ last.before._options.mode = "hash"
       \/ last.before._options.root = <<"/", "r", "/">>

(***************************************************************************)
(* C28: listen stores exactly the options mode, root and silent, each with *)
(* the value the caller gave or else its default (hash, "/", false); a key *)
(* it does not know is neither stored nor rejected.                        *)
(***************************************************************************)
C28_OnlyKnownOptions ==
    (last.op = "listen" /\ last.err = "none")
    => LET given == last.args[1]
       IN  /\ DOMAIN _options = {"kind", "mode", "root", "silent"}
           /\ _options.mode = (IF "mode" \in DOMAIN given THEN given.mode ELSE "hash")
           /\ _options.root = (IF "root" \in DOMAIN given THEN given.root ELSE <<"/">>)
           /\ _options.silent = (IF "silent" \in DOMAIN given THEN given.silent ELSE FALSE)

\* listen was given a key it does not know, and one it knows, and returned
C28_Witness ==
    /\ last.op = "listen"
    /\ last.err = "none"
    /\ "base" \in DOMAIN last.args[1]
    /\ "silent" \in DOMAIN last.args[1]
    /\ HasOptions(State)

\* the instances whose _checkUrl is subscribed to a change event
Subscribed(instances) == {h \in DOMAIN instances : instances[h].listening # {}}

\* a fragment as navigate compares it: one leading "#" or "/" and what
\* follows a "#" are dropped
NormalizedFragment(fragment) == pathStripper(routeStripper(fragment))

\* options.trigger === false
NoTrigger(options) == "trigger" \in DOMAIN options /\ options.trigger = FALSE

\* the path navigate gives the document for a fragment under a root
PathUnder(root, fragment) ==
    IF fragment = <<>> /\ root # <<"/">> THEN trailingSlash(root) ELSE root \o fragment

(***************************************************************************)
(* C29: start on a History throws while the shared flag is set and changes *)
(* nothing; the start that follows a stop succeeds; and at most one        *)
(* History instance is started (subscribed to the change events) at any    *)
(* time.                                                                   *)
(***************************************************************************)
C29_OneStartedHistory ==
    [][/\ (last'.op = "start" /\ _started)
          => /\ last'.err = "Error"
             /\ UNCHANGED <<_started, histories, location>>
       /\ (last.op = "stop" /\ last'.op = "start") => last'.err = "none"
       /\ Cardinality(Subscribed(histories')) <= 1]_vars

(***************************************************************************)
(* C30: navigate on a History returns false, leaves the location and the   *)
(* instances as they are and invokes no handler when the flag is not set   *)
(* or the normalized fragment is the instance's current one; otherwise,    *)
(* with options.trigger false, it writes the location of the mode, stores  *)
(* the normalized fragment as the current one and invokes no handler.      *)
(***************************************************************************)
C30_NavigateGuardsAndTrigger ==
    [][last'.op = "navigate"
       => LET self == histories[last'.self]
              f == NormalizedFragment(last'.args[1])
          IN  /\ (~_started \/ self._fragment = Str(f))
                 => /\ last'.ret = Bool(FALSE)
                    /\ last'.calls = <<>>
                    /\ UNCHANGED <<location, histories, _started>>
              /\ (_started /\ self._fragment # Str(f) /\ NoTrigger(last'.args[2]))
                 => /\ last'.calls = <<>>
                    /\ histories'[last'.self]._fragment = Str(f)
                    /\ self._root.kind = "string"
                       => IF IsTrue(self._hasPushState) \/ ~IsTrue(self._wantsHashChange)
                          THEN location'.pathname = PathUnder(self._root.chars, f)
                          ELSE location'.hash = Str(f)]_vars

\* navigate('/a', undefined, {trigger: false}) on a started History whose
\* current fragment was another one and which has a handler for 'a': the
\* location and the current fragment are the new ones, no handler was called
C30_Witness ==
    /\ last.op = "navigate"
    /\ last.args = <<<<"/", "a">>, [trigger |-> FALSE]>>
    /\ last.before._started
    /\ last.before._fragment # Str(<<"a">>)
    /\ histories[last.self]._handlers # <<>>
    /\ histories[last.self]._fragment = Str(<<"a">>)
    /\ last.calls = <<>>
    /\ \/ location.hash = Str(<<"a">>)
       \/ location.pathname = <<"/", "r", "/", "a">>

(***************************************************************************)
(* C31: after navigate(p) in hash mode the current fragment is the loaded  *)
(* path, and the hashchange event the browser delivers for the write of    *)
(* navigate invokes no handler.                                            *)
(***************************************************************************)
C31_OwnEventIsDeduplicated ==
    (/\ last.op = "navigate"
     /\ last.err = "none"
     /\ _options.mode = "hash")
    => /\ Str(getCurrent(State).path) = _loadedPath
       /\ dispatchEvent(State, "hashchange").calls = <<>>

(***************************************************************************)
(* C32: when a handler called by navigate has itself called navigate(q),   *)
(* the loaded path after the outer navigate returns is q, the fragment the *)
(* location shows.                                                         *)
(***************************************************************************)
C32_NestedNavigateAdvances ==
    (/\ last.op = "navigate"
     /\ last.err = "none"
     /\ \E k \in 1..Len(last.calls) : last.calls[k].activate = "toB")
    => /\ location.hash = Str(<<"b">>)
       /\ _loadedPath = Str(<<"b">>)

(***************************************************************************)
(* C33: the handlers a navigate invokes, and their order, are the handlers *)
(* that matched when the load began, also when one of them calls use() or  *)
(* stop() while the chain runs.                                            *)
(***************************************************************************)
C33_MatchListIsFixed ==
    [][(/\ last'.op = "navigate"
        /\ last'.err = "none"
        /\ \A i \in 1..Len(_handlers) : _handlers[i].activate # "toB")
       => Activates(last'.calls) = MatchingCallbacks(_handlers, NavigatedPath(last'))]_vars

\* a navigate whose chain went on after a handler had stopped the router, or
\* after one had registered a route that matches the path being loaded
C33_Witness ==
    /\ last.op = "navigate"
    /\ last.err = "none"
    /\ \A k \in 1..Len(last.calls) : last.calls[k].activate # "toB"
    /\ \E k \in 1..(Len(last.calls) - 1) : last.calls[k].activate \in {"quit", "addA"}

(***************************************************************************)
(* C34: whenever the router is idle it has no loaded path.                 *)
(***************************************************************************)
C34_IdleHasNoLoadedPath ==
    Idle => _loadedPath.kind # "string"

(***************************************************************************)
(* C35: after every load that runs to completion the loaded path is the    *)
(* path that was loaded, whether handlers ran, the chain was halted or     *)
(* nothing matched; and when nothing matched, a change event for the same  *)
(* location invokes nothing.                                               *)
(***************************************************************************)
C35_LoadedPathIsPathLoaded ==
    [][/\ (last'.op = "navigate" /\ last'.err = "none")
          => /\ _loadedPath' = Str(NavigatedPath(last'))
             /\ (last'.calls = <<>> /\ _options'.mode \in {"history", "hash"})
                => /\ _loadCurrent(State').calls = <<>>
                   /\ dispatchEvent(State', "hashchange").calls = <<>>
                   /\ dispatchEvent(State', "popstate").calls = <<>>
       /\ (last'.op = "listen" /\ last'.err = "none" /\ ~_options'.silent)
          => _loadedPath' = Str(getCurrent(State').path)]_vars

\* a navigate to a path that no handler matches, and one whose chain was
\* halted by its first handler: the loaded path is the new path
C35_Witness ==
    /\ last.op = "navigate"
    /\ last.err = "none"
    /\ last.ret = Bool(FALSE)
    /\ last.before._loadedPath # _loadedPath
    /\ _loadedPath = Str(NavigatedPath(last))
    /\ _handlers # <<>>

(***************************************************************************)
(* C36: only a return of false halts the chain: after a handler that       *)
(* returns nothing, null, 0 or the empty string the next matching handler  *)
(* runs, and navigate reports true when the first handler returned any of  *)
(* these.                                                                  *)
(***************************************************************************)
C36_OnlyFalseHalts ==
    [][(last'.op = "navigate" /\ last'.err = "none")
       => LET matching == MatchingCallbacks(_handlers, NavigatedPath(last'))
              halting == {i \in 1..Len(matching) : matching[i] = "halt"}
              ran == IF halting = {} THEN Len(matching)
                     ELSE CHOOSE i \in halting : \A j \in halting : i <= j
          IN  /\ Activates(last'.calls) = SubSeq(matching, 1, ran)
              /\ last'.ret = Bool(matching # <<>> /\ matching[1] # "halt")]_vars

\* a chain in which a handler that returned null, 0 or '' was followed by
\* another handler
C36_Witness ==
    /\ last.op = "navigate"
    /\ last.err = "none"
    /\ last.ret = Bool(TRUE)
    /\ \E k \in 1..(Len(last.calls) - 1) : last.calls[k].activate \in {"null", "zero", "empty"}
    /\ last.calls[1].activate \in {"null", "zero", "empty"}

(***************************************************************************)
(* C37: what a handler assigns to the params, the query and the oldPath of *)
(* its request is not seen by the handlers invoked after it: each receives *)
(* the request extracted for its own route, with the oldPath of the load.  *)
(***************************************************************************)
C37_FreshRequestPerHandler ==
    (last.op = "navigate" /\ last.err = "none")
    => \A k \in 1..Len(last.calls) :
           /\ DOMAIN last.calls[k].request.params = {}
           /\ <<"x">> \notin DOMAIN last.calls[k].request.query
           /\ last.calls[k].request.oldPath = last.before._loadedPath
           /\ last.calls[k].request.path = parsePath(NavigatedPath(last)).path

\* a chain in which the handler that assigns to its request was followed by
\* another handler
C37_Witness ==
    /\ last.op = "navigate"
    /\ last.err = "none"
    /\ \E k \in 1..(Len(last.calls) - 1) : last.calls[k].activate = "edit"

(***************************************************************************)
(* C38: a handler invoked by navigate(p) finds that getCurrent() returns   *)
(* p (without the slashes around it) and that the loaded path is still the *)
(* one from before the call, which is also the oldPath it is given; the    *)
(* loaded path becomes p when the chain has ended.                         *)
(***************************************************************************)
C38_LocationWrittenBeforeChain ==
    (last.op = "navigate" /\ last.err = "none")
    => /\ \A k \in 1..Len(last.calls) :
              last.calls[k].activate = "look"
              => /\ last.calls[k].seen.current = Str(StripSlashes(last.args[1]))
                 /\ last.calls[k].seen._loadedPath = last.before._loadedPath
                 /\ last.calls[k].request.oldPath = last.before._loadedPath
       /\ _loadedPath = Str(NavigatedPath(last))

\* a handler looked at the router during a navigate that changed the path
C38_Witness ==
    /\ last.op = "navigate"
    /\ last.err = "none"
    /\ \E k \in 1..Len(last.calls) :
           /\ last.calls[k].activate = "look"
           /\ last.calls[k].seen.current # last.calls[k].seen._loadedPath
    /\ last.before._loadedPath # _loadedPath

\* the callbacks of a list of handlers or of calls, in order
CallbacksOf(entries) == [k \in 1..Len(entries) |-> entries[k].callback]

\* the handlers of a table whose route tests true for a fragment, in table order
MatchingRoutes(handlers, fragment) ==
    SelectSeq(handlers, LAMBDA handler : RegExpTest(handler.route, fragment))

\* the call is one that loads a fragment in the state it finds: a navigate to
\* another fragment than the current one on a started history, a hashchange
\* event for another fragment on a subscribed history, a start
IsLoad(call, started, self) ==
    \/ call.op = "navigate" /\ started
       /\ self._fragment # Str(NormalizedFragment(call.args[1]))
    \/ call.op = "hashchange" /\ "hashchange" \in self.listening
       /\ self._fragment # Str(routeStripper(call.args[1]))
    \/ call.op = "start" /\ ~started

\* the fragment such a call loads, given the location it finds
LoadedFragment(call, loc) ==
    CASE call.op = "navigate" -> NormalizedFragment(call.args[1])
      [] call.op = "hashchange" -> routeStripper(call.args[1])
      [] OTHER -> routeStripper(History_getHash(loc))

\* the number of callbacks subscribed to an event in a list of event handlers
CountOf(evtHandlers, evt) ==
    Cardinality({i \in 1..Len(evtHandlers) : evtHandlers[i].evt = evt})

\* the place of a step in the order before, deactivate, activate, after
RankOf(step) ==
    CASE step = "route:before" -> 1
      [] step = "deactivate" -> 2
      [] step = "activate" -> 3
      [] OTHER -> 4

\* the entries of a trace with a given step
StepsOf(trace, step) == SelectSeq(trace, LAMBDA entry : entry.step = step)

(***************************************************************************)
(* C39: a load on Router.history calls the callback of the first handler   *)
(* of the table whose route matches the fragment and no other, or none     *)
(* when no route matches, and the fragment loaded is the current fragment  *)
(* afterwards in both cases; a call that loads nothing calls no callback;  *)
(* addHandler puts the new handler first in the table, and a Router built  *)
(* from a route map puts the entries of the map first in the order of the  *)
(* map.                                                                    *)
(***************************************************************************)
C39_FirstMatchOnly ==
    [][/\ IF IsLoad(last', _started, histories["history"]) /\ last'.err = "none"
          THEN LET f == LoadedFragment(last', location)
                   matching == MatchingRoutes(histories["history"]._handlers, f)
               IN  /\ histories'["history"]._fragment = Str(f)
                   /\ CallbacksOf(last'.calls)
                          = IF matching = <<>> THEN <<>> ELSE <<matching[1].callback>>
          ELSE last'.calls = <<>>
       /\ last'.op = "addHandler"
          => CallbacksOf(histories'["history"]._handlers)
                 = <<last'.args[1]>> \o CallbacksOf(histories["history"]._handlers)
       /\ (last'.op = "new" /\ "map" \in DOMAIN last'.args[1])
          => CallbacksOf(histories'["history"]._handlers)
                 = last'.args[1].map \o CallbacksOf(histories["history"]._handlers)]_vars

\* a navigate to 'a' on a table of three handlers whose routes all match
\* 'a', the one added last being the only one called
C39_Witness ==
    /\ last.op = "navigate"
    /\ last.args = <<<<"a">>>>
    /\ Len(MatchingRoutes(last.before._handlers, <<"a">>)) = 3
    /\ CallbacksOf(last.calls) = <<"late">>
    /\ CallbacksOf(last.before._handlers)[2] \in {"home", "user"}
    /\ histories["history"]._fragment = Str(<<"a">>)

(***************************************************************************)
(* C40: when a load calls the callback of a route, the route:before        *)
(* listeners run first, all of them, then deactivate of the handler of the *)
(* old-route record if it has one, then activate of the matched handler,   *)
(* then all route:after listeners, and the old-route record is still the   *)
(* previous one during every step and is the matched route afterwards;     *)
(* with a route:before listener that sets canceled, only the route:before  *)
(* listeners run and the old-route record stays as it was.                 *)
(***************************************************************************)
C40_RouteEventOrder ==
    [][(Len(last'.calls) = 1 /\ last'.err = "none")
       => LET trace == last'.trace
              name == last'.calls[1].callback
              befores == CountOf(router._evtHandlers, "route:before")
                         + CountOf(histories["history"]._evtHandlers, "route:before")
              afters == CountOf(router._evtHandlers, "route:after")
                        + CountOf(histories["history"]._evtHandlers, "route:after")
              vetoed == \E i \in 1..Len(router._evtHandlers) :
                            router._evtHandlers[i] = [evt |-> "route:before",
                                                      callback |-> "veto"]
          IN  /\ \A i, j \in 1..Len(trace) :
                     i < j => RankOf(trace[i].step) <= RankOf(trace[j].step)
              /\ \A i \in 1..Len(trace) : trace[i]._old = router._old
              /\ Len(StepsOf(trace, "route:before")) = befores
              /\ IF vetoed
                 THEN /\ Len(trace) = befores
                      /\ router' = router
                 ELSE /\ CallbacksOf([k \in 1..Len(StepsOf(trace, "activate"))
                                         |-> [callback |-> StepsOf(trace, "activate")[k].by]])
                             = <<name>>
                      /\ CallbacksOf([k \in 1..Len(StepsOf(trace, "deactivate"))
                                         |-> [callback |-> StepsOf(trace, "deactivate")[k].by]])
                             = IF router._old.kind = "object"
                                  /\ HandlerOf(router._old.handler).deactivate
                               THEN <<router._old.handler>> ELSE <<>>
                      /\ Len(StepsOf(trace, "route:after")) = afters
                      /\ router'._old.kind = "object"
                      /\ router'._old.handler = name
                      /\ router'._old.fragment = last'.calls[1].fragment]_vars

\* a load whose callback ran a route:before listener, the deactivate of the
\* old handler, the activate of the new one and a route:after listener, and
\* replaced the old-route record
C40_Witness ==
    /\ Len(last.calls) = 1
    /\ [k \in 1..Len(last.trace) |-> last.trace[k].step]
           = <<"route:before", "deactivate", "activate", "route:after">>
    /\ last.before._old.kind = "object"
    /\ last.before._old.handler # router._old.handler
    /\ last.trace[2].by = last.before._old.handler
    /\ last.trace[3].by = router._old.handler

====
